---------------------------- MODULE Spec2Model ----------------------------
(***************************************************************************)
(* A model of the CPG RAG pipeline of cpg_rag_complete:                    *)
(*   step3_setup_rag.py  (RAGSetup: graph index, enrichment, vector stores)*)
(*   step4_query_rag.py  (EnhancedRAGQueryEngine: query, fusion, expansion)*)
(* Strings are sequences of one-character strings, scores are exact        *)
(* rationals scaled by ScoreUnit.                                          *)
(***************************************************************************)
EXTENDS Integers, Sequences, FiniteSets, TLC

VARIABLES
    \* ---- EnhancedRAGQueryEngine._graph_expand (one call, step by step)
    enriched,      \* method_by_id: id -> enriched method, for the ids loaded
    scored_docs,   \* the argument: list of (score, doc)
    hops,          \* the argument hops
    max_add,       \* the argument max_add
    queue,         \* the local deque of (mid, score, depth)
    seen_ids,      \* the local set seen_ids
    added,         \* the local list added
    neighbors,     \* the local list neighbors still to be walked by the for loop
    cur,           \* the (mid, base_score, depth) last popped
    ge_out,        \* the returned list
    ge_pc,         \* position in _graph_expand
    ge_steps,      \* history: the number of steps this call has taken
    added_from,    \* history: for every entry of added, the (score, depth) popped with its parent
    \* ---- automatic query classification (one run of the two functions)
    cl_words,      \* the words the query text was typed from
    cl_query,      \* the query text
    cl_meta,       \* the dictionary _preprocess_query returned
    cl_type,       \* the type _detect_query_type returned
    cl_pc,         \* position in the run
    \* ---- make_display_name (one call)
    dn_raw,        \* the argument raw_name
    dn_full,       \* the argument full_name
    dn_code,       \* the argument code
    dn_id,         \* the argument method_id
    dn_result,     \* the returned name
    dn_pc,         \* position in the call
    \* ---- RAGSetup.load_sources, then one call of extract_full_code
    fc_files,      \* the source directory: (relative path, text) in rglob order
    source_files,  \* RAGSetup.source_files: (key, text) in insertion order
    fc_method,     \* the argument method: filename, lineNumber, code
    fc_result,     \* the returned text
    fc_pc,         \* position in the run
    \* ---- the index on disk and the services the query engine talks to
    chroma,        \* CHROMA_DIR: collection name -> [exists, docs]
    enriched_json, \* DATA_DIR/enriched_methods.json: [exists, methods]
    store_health,  \* collection name -> "ok", "unloadable" (the constructor
                   \* raises) or "search_fails" (similarity_search raises)
    \* ---- EnhancedRAGQueryEngine and one call of query()
    initialized,       \* self._initialized
    vector_stores,     \* self.vector_stores: name -> "None" or "store"
    enriched_methods,  \* self.enriched_methods
    methods_by_file,   \* self.methods_by_file: (filename, methods) in insertion order
    all_method_names,  \* self.all_method_names
    config_top_k,      \* self.config.TOP_K_RESULTS (0 when unset)
    q_question,        \* the argument question
    q_type,            \* the argument query_type, reassigned by query()
    q_top_k,           \* the argument top_k
    q_meta,            \* processed
    q_idx,             \* the store the retrieval loop is at
    q_retrieved,       \* retrieved
    q_blocks,          \* context, as its blocks
    q_sources,         \* sources
    q_result,          \* the returned dictionary
    q_log,             \* history: the calls this query made, in order
    q_failed,          \* history: the stores whose lookup failed in this query
    q_observed,        \* history: store -> the collection as the lookup found it
    q_pc,              \* position in query()
    \* ---- RAGSetup.run, the indexing pass
    ix_force,      \* the argument force
    ix_enriched,   \* self.enriched_methods of the pass
    ix_idx,        \* the collection create_vectorstores is at
    ix_pc,         \* position in run()
    \* ---- RAGSetup.run from load_cpg to the end of enrich_methods
    nodes_json,    \* cpg_nodes.json: [exists, valid, nodes]
    edges_json,    \* cpg_edges.json: [exists, valid, edges]
    methods_json,  \* methods.json: [exists, valid, methods]
    su_dir,        \* the files of source_dir: <<relative path, text>> in rglob order
    su_nodes,      \* self.nodes
    su_edges,      \* self.edges
    su_methods,    \* self.methods
    su_sources,    \* self.source_files
    id_to_node,    \* self.id_to_node
    outgoing,      \* self.outgoing
    incoming,      \* self.incoming
    su_out,        \* the local list out of enrich_methods
    su_i,          \* how many methods the loop of enrich_methods has taken
    su_enriched,   \* self.enriched_methods
    su_pc,         \* position in run()
    \* ---- run_pipeline.main
    rp_args,       \* the parsed command line: steps, skip_cpg, check, source_dir
    rp_req,        \* what check_requirements() returns on this machine
    rp_steps,      \* steps_to_run
    rp_at,         \* the step main() is at: 1..4, 5 after the last step
    rp_running,    \* whether the subprocess of the step is running
    rp_started,    \* history: the steps started, in order
    rp_codes,      \* history: how the subprocess of each started step ended
    rp_complete,   \* history: "Pipeline Complete" was printed
    rp_exit,       \* the exit code of the process, read when rp_pc = "exited"
    rp_pc,         \* position in main()
    \* ---- RAGSetup.graph_context, called on a built graph index
    gc_call        \* the last call: [done, id, depth, calls, called_by]

geVars == <<enriched, scored_docs, hops, max_add, queue, seen_ids, added,
            neighbors, cur, ge_out, ge_pc, ge_steps, added_from>>

clVars == <<cl_words, cl_query, cl_meta, cl_type, cl_pc>>

dnVars == <<dn_raw, dn_full, dn_code, dn_id, dn_result, dn_pc>>

fcVars == <<fc_files, source_files, fc_method, fc_result, fc_pc>>

diskVars == <<chroma, enriched_json, store_health>>

qVars == <<initialized, vector_stores, enriched_methods, methods_by_file, all_method_names,
           config_top_k, q_question,
           q_type, q_top_k, q_meta, q_idx, q_retrieved, q_blocks, q_sources,
           q_result, q_log, q_failed, q_observed, q_pc>>

ixVars == <<ix_force, ix_enriched, ix_idx, ix_pc>>

suVars == <<nodes_json, edges_json, methods_json, su_dir, su_nodes, su_edges,
            su_methods, su_sources, id_to_node, outgoing, incoming, su_out, su_i,
            su_enriched, su_pc>>

rpVars == <<rp_args, rp_req, rp_steps, rp_at, rp_running, rp_started, rp_codes, rp_complete,
           rp_exit, rp_pc>>

gcVars == <<gc_call>>

vars == <<geVars, clVars, dnVars, fcVars, diskVars, qVars, ixVars, suVars, rpVars, gcVars>>

\* what the steps of each part leave alone
notGe == <<clVars, dnVars, fcVars, diskVars, qVars, ixVars, suVars, rpVars, gcVars>>
notCl == <<geVars, dnVars, fcVars, diskVars, qVars, ixVars, suVars, rpVars, gcVars>>
notDn == <<geVars, clVars, fcVars, diskVars, qVars, ixVars, suVars, rpVars, gcVars>>
notFc == <<geVars, clVars, dnVars, diskVars, qVars, ixVars, suVars, rpVars, gcVars>>
notQ  == <<clVars, dnVars, fcVars, ixVars, suVars, rpVars, gcVars>>
notIx == <<geVars, clVars, dnVars, fcVars, qVars, suVars, rpVars, gcVars>>
notSu == <<geVars, clVars, dnVars, fcVars, diskVars, qVars, ixVars, rpVars, gcVars>>
notRp == <<geVars, clVars, dnVars, fcVars, diskVars, qVars, ixVars, suVars, gcVars>>
notGc == <<geVars, clVars, dnVars, fcVars, diskVars, qVars, ixVars, suVars, rpVars>>

-----------------------------------------------------------------------------
(* Bounds of the model *)

MaxEdges == 3       \* a call graph has at most MaxEdges CALL edges
MaxHops == 4        \* hops argument ranges over 0..MaxHops (> number of methods)
MaxAddBound == 2    \* max_add argument ranges over 0..MaxAddBound
MaxSeeds == 2       \* scored_docs holds at most MaxSeeds documents
MaxFiles == 2       \* the source directory holds at most MaxFiles files
MaxLine == 3        \* lineNumber of a method ranges over 0..MaxLine
MaxCodeLength == 20 \* MAX_CODE_LENGTH of the configuration: longer page contents are cut
MaxQueryWords == 3  \* a classified query is typed from at most MaxQueryWords entries of ClassifyWords

\* the node ids of the code property graph
Nodes == {1, 2, 3}
MaxId == CHOOSE n \in Nodes : \A m \in Nodes : m <= n

(* Program constants *)

NeighborCap == 50   \* the [:50] slices of calls_full / called_by_full
GraphDepth == 2     \* GRAPH_DEPTH fallback of the query engine
BlockCap == 500     \* extract_full_code scans at most start + 500 lines
QueryMaxAdd == 40   \* query() expands with max_add=40
QueryMaxBlocks == 12 \* query() prepares max_blocks=12 context blocks
QueryMaxSources == 10 \* query() returns sources[:10]
DefaultTopK == 5    \* self.config.TOP_K_RESULTS or 5

-----------------------------------------------------------------------------
(* The parts of the state a specification does not exercise stay idle *)

\* no call of _graph_expand is under way
IdleExpand ==
    /\ enriched = <<>> /\ scored_docs = <<>> /\ hops = 0 /\ max_add = 0
    /\ queue = <<>> /\ seen_ids = {} /\ added = <<>> /\ neighbors = <<>>
    /\ cur = <<0, 0, 0>> /\ ge_out = <<>> /\ ge_pc = "idle" /\ ge_steps = 0 /\ added_from = <<>>

\* no classification is under way
IdleClassify ==
    /\ cl_words = <<>> /\ cl_query = <<>> /\ cl_meta = <<>> /\ cl_type = "none"
    /\ cl_pc = "idle"

-----------------------------------------------------------------------------
(* Generic helpers *)

Min(a, b) == IF a <= b THEN a ELSE b
Max(a, b) == IF a >= b THEN a ELSE b

RECURSIVE Pow(_, _)
Pow(b, e) == IF e = 0 THEN 1 ELSE b * Pow(b, e - 1)

Take(s, n) == SubSeq(s, 1, Min(n, Len(s)))

Range(s) == {s[i] : i \in 1..Len(s)}

RECURSIVE SetToSeq(_)
SetToSeq(S) == IF S = {} THEN <<>>
               ELSE LET x == CHOOSE y \in S : \A z \in S : y <= z
                    IN <<x>> \o SetToSeq(S \ {x})

-----------------------------------------------------------------------------
(* Text: a string is a sequence of one-character strings *)

LowerSeq == <<"a", "b", "c", "d", "e", "f", "g", "h", "i", "j", "k", "l", "m", "n", "o", "p", "q", "r", "s", "t", "u", "v", "w", "x", "y", "z">>
UpperSeq == <<"A", "B", "C", "D", "E", "F", "G", "H", "I", "J", "K", "L", "M", "N", "O", "P", "Q", "R", "S", "T", "U", "V", "W", "X", "Y", "Z">>
DigitChars == {"0", "1", "2", "3", "4", "5", "6", "7", "8", "9"}
LowerLetters == Range(LowerSeq)
UpperLetters == Range(UpperSeq)
SpaceChars == {" ", "\t", "\n"}
QuoteChars == {"\"", "'"}

\* [A-Za-z0-9_], the characters \b takes for word characters
IsWordChar(c) == c \in LowerLetters \cup UpperLetters \cup DigitChars \cup {"_"}

\* str.lower()
LowerChar(c) == IF c \in UpperLetters
                THEN LowerSeq[CHOOSE i \in 1..Len(UpperSeq) : UpperSeq[i] = c]
                ELSE c
Lower(s) == [i \in 1..Len(s) |-> LowerChar(s[i])]

\* str.strip()
RECURSIVE LStrip(_)
LStrip(s) == IF s # <<>> /\ Head(s) \in SpaceChars THEN LStrip(Tail(s)) ELSE s
RECURSIVE RStrip(_)
RStrip(s) == IF s # <<>> /\ s[Len(s)] \in SpaceChars
             THEN RStrip(SubSeq(s, 1, Len(s) - 1)) ELSE s
Strip(s) == RStrip(LStrip(s))

\* needle occupies hay[i .. i+Len(needle)-1]
OccursAt(hay, i, needle) ==
    /\ i >= 1 /\ i + Len(needle) - 1 <= Len(hay)
    /\ \A k \in 1..Len(needle) : hay[i + k - 1] = needle[k]

\* needle in hay
Contains(hay, needle) == \E i \in 1..(Len(hay) + 1) : OccursAt(hay, i, needle)

\* re.search(r'\bWORD\b', hay) for a WORD that starts and ends with a word character
WordOccurs(hay, word) ==
    \E i \in 1..Len(hay) :
        /\ OccursAt(hay, i, word)
        /\ (i = 1 \/ ~IsWordChar(hay[i - 1]))
        /\ (i + Len(word) > Len(hay) \/ ~IsWordChar(hay[i + Len(word)]))

\* end of the longest run of characters outside stop that starts at i
\* (i - 1 when hay[i] is in stop or i is past the end)
RECURSIVE RunEnd(_, _, _)
RunEnd(hay, i, stop) ==
    IF i > Len(hay) \/ hay[i] \in stop THEN i - 1 ELSE RunEnd(hay, i + 1, stop)

\* leftmost match of OPEN ([^STOP]+) CLOSE, with CLOSE \subseteq STOP: the
\* group, or <<>> when nothing matches (a group is never empty)
DelimitedGroup(hay, open, stop) ==
    LET starts == {i \in 1..Len(hay) :
                     /\ hay[i] \in open
                     /\ RunEnd(hay, i + 1, stop) >= i + 1
                     /\ RunEnd(hay, i + 1, stop) < Len(hay)}
    IN IF starts = {} THEN <<>>
       ELSE LET i == CHOOSE x \in starts : \A y \in starts : x <= y
            IN SubSeq(hay, i + 1, RunEnd(hay, i + 1, stop))

\* extract_quoted: re.search(r'["\']([^"\']+)["\']'), <<>> standing for None
extract_quoted(query) == DelimitedGroup(query, QuoteChars, QuoteChars)

\* re.findall(r'<([^>]+)>', question)[0], <<>> when there is no match
AngleToken(question) == DelimitedGroup(question, {"<"}, {">"})

\* no call of make_display_name is under way
IdleDisplayName ==
    /\ dn_raw = <<>> /\ dn_full = <<>> /\ dn_code = <<>> /\ dn_id = 0
    /\ dn_result = <<>> /\ dn_pc = "idle"

\* no source is loaded and no call of extract_full_code is under way
IdleFullCode ==
    /\ fc_files = <<>> /\ source_files = <<>>
    /\ fc_method = [filename |-> <<>>, lineNumber |-> 0, code |-> <<>>]
    /\ fc_result = <<>> /\ fc_pc = "idle"

\* there is no index on disk, no engine and no query
IdleQuery ==
    /\ chroma = <<>> /\ enriched_json = <<>> /\ store_health = <<>>
    /\ initialized = FALSE /\ vector_stores = <<>> /\ enriched_methods = <<>>
    /\ methods_by_file = <<>> /\ all_method_names = <<>>
    /\ config_top_k = 0 /\ q_question = <<>> /\ q_type = "none" /\ q_top_k = 0
    /\ q_meta = <<>> /\ q_idx = 0 /\ q_retrieved = <<>> /\ q_blocks = <<>>
    /\ q_sources = <<>> /\ q_result = <<>> /\ q_log = <<>> /\ q_failed = {}
    /\ q_observed = <<>> /\ q_pc = "idle"

\* no indexing pass is under way
IdleIndexer ==
    /\ ix_force = FALSE /\ ix_enriched = <<>> /\ ix_idx = 0 /\ ix_pc = "idle"

\* no setup pass is under way
IdleSetup ==
    /\ nodes_json = <<>> /\ edges_json = <<>> /\ methods_json = <<>> /\ su_dir = <<>>
    /\ su_nodes = <<>> /\ su_edges = <<>> /\ su_methods = <<>> /\ su_sources = <<>>
    /\ id_to_node = <<>> /\ outgoing = <<>> /\ incoming = <<>>
    /\ su_out = <<>> /\ su_i = 0 /\ su_enriched = <<>> /\ su_pc = "idle"

\* no pipeline runs
IdlePipeline ==
    /\ rp_args = [steps |-> [given |-> FALSE, text |-> <<>>], skip_cpg |-> FALSE,
                  check |-> FALSE, source_dir |-> FALSE]
    /\ rp_req = TRUE /\ rp_steps = <<>> /\ rp_at = 0 /\ rp_running = FALSE
    /\ rp_started = <<>> /\ rp_codes = <<>> /\ rp_complete = FALSE
    /\ rp_exit = 0 /\ rp_pc = "idle"

\* graph_context has not been called
IdleContext ==
    gc_call = [done |-> FALSE, id |-> 0, depth |-> 0, calls |-> <<>>, called_by |-> <<>>]

\* every part but the named one is idle
IdleBut(part) ==
    /\ IF part \in {"expand", "query", "rebuild"} THEN TRUE ELSE IdleExpand
    /\ IF part = "classify" THEN TRUE ELSE IdleClassify
    /\ IF part = "display_name" THEN TRUE ELSE IdleDisplayName
    /\ IF part = "full_code" THEN TRUE ELSE IdleFullCode
    /\ IF part \in {"query", "rebuild"} THEN TRUE ELSE IdleQuery
    /\ IF part = "rebuild" THEN TRUE ELSE IdleIndexer
    /\ IF part \in {"setup", "context"} THEN TRUE ELSE IdleSetup
    /\ IF part = "context" THEN TRUE ELSE IdleContext
    /\ IF part = "pipeline" THEN TRUE ELSE IdlePipeline

-----------------------------------------------------------------------------
(* step3_setup_rag.py: is_synthetic, extract_name_from_code and            *)
(* make_display_name.  None and the empty string are both <<>>.             *)

StartsWith(s, prefix) == OccursAt(s, 1, prefix)

\* is_synthetic(name): empty after strip, or one of SYNTHETIC_PATTERNS matches
is_synthetic(name) ==
    LET s == Strip(name)
    IN \/ s = <<>>
       \/ /\ Len(s) >= 2 /\ s[1] = "<" /\ s[Len(s)] = ">"      \* ^<.*>$
          /\ \A i \in 1..Len(s) : s[i] # "\n"
       \/ StartsWith(s, <<"o", "p", "e", "r", "a", "t", "o", "r", ".">>)                                     \* ^operator\.
       \/ StartsWith(Lower(s), <<"f", "a", "k", "e">>)                              \* ^fake, re.I
       \/ \A i \in 1..Len(s) : ~IsWordChar(s[i])                \* ^[^a-zA-Z0-9_]+$
       \/ StartsWith(Lower(s), <<"m", "e", "t", "a", "c", "l", "a", "s", "s">>)                              \* ^metaClass, re.I

\* [A-Za-z_], the first character of an identifier
IsIdentStart(c) == c \in LowerLetters \cup UpperLetters \cup {"_"}

\* the separators of re.split(r'[.#/:$<> ]+', full_name)
NameSeparators == {".", "#", "/", ":", "$", "<", ">", " "}

\* the last non-empty token of re.split that is not synthetic, <<>> if none:
\* the tokens are the longest runs of characters that are no separators
RECURSIVE LastGoodToken(_, _)
LastGoodToken(full_name, end) ==
    IF end < 1 THEN <<>>
    ELSE IF full_name[end] \in NameSeparators THEN LastGoodToken(full_name, end - 1)
    ELSE LET start == CHOOSE i \in 1..end :
                         /\ \A k \in i..end : full_name[k] \notin NameSeparators
                         /\ (i = 1 \/ full_name[i - 1] \in NameSeparators)
             t == SubSeq(full_name, start, end)
         IN IF ~is_synthetic(t) THEN t ELSE LastGoodToken(full_name, start - 1)

\* the identifier [A-Za-z_][A-Za-z0-9_]* read at position i, <<>> if none starts there
IdentAt(code, i) ==
    IF i >= 1 /\ i <= Len(code) /\ IsIdentStart(code[i])
    THEN SubSeq(code, i, RunEnd(code, i,
                   {code[k] : k \in {j \in 1..Len(code) : ~IsWordChar(code[j])}}))
    ELSE <<>>

\* first position at or after i that holds no white space
SkipSpace(code, i) == RunEnd(code, i, {code[k] : k \in {j \in 1..Len(code) :
                                          code[j] \notin SpaceChars}}) + 1

\* ^\s*(def|async def|class)\s+IDENT tried at the line start i: the identifier or <<>>
DefNameAt(code, i) ==
    LET k == SkipSpace(code, i)
        after(word) ==
            IF OccursAt(code, k, word)
               /\ SkipSpace(code, k + Len(word)) > k + Len(word)
            THEN IdentAt(code, SkipSpace(code, k + Len(word)))
            ELSE <<>>
    IN IF after(<<"d", "e", "f">>) # <<>> THEN after(<<"d", "e", "f">>)
       ELSE IF after(<<"a", "s", "y", "n", "c", " ", "d", "e", "f">>) # <<>> THEN after(<<"a", "s", "y", "n", "c", " ", "d", "e", "f">>)
       ELSE after(<<"c", "l", "a", "s", "s">>)

\* KEYWORD\s+IDENT tried at position i
KeywordNameAt(code, i, word) ==
    IF OccursAt(code, i, word) /\ SkipSpace(code, i + Len(word)) > i + Len(word)
    THEN IdentAt(code, SkipSpace(code, i + Len(word)))
    ELSE <<>>

\* const\s+IDENT\s*=\s*\( tried at position i
ConstNameAt(code, i) ==
    LET id == KeywordNameAt(code, i, <<"c", "o", "n", "s", "t">>)
        p  == SkipSpace(code, i + 5)
        e  == SkipSpace(code, p + Len(id))
    IN IF id # <<>> /\ e <= Len(code) /\ code[e] = "="
          /\ SkipSpace(code, e + 1) <= Len(code) /\ code[SkipSpace(code, e + 1)] = "("
       THEN id ELSE <<>>

\* IDENT\s*\([^)]*\)\s*\{ tried at position i
SignatureNameAt(code, i) ==
    LET id == IdentAt(code, i)
        o  == SkipSpace(code, i + Len(id))
        c  == RunEnd(code, o + 1, {")"}) + 1
        b  == SkipSpace(code, c + 1)
    IN IF id # <<>> /\ o <= Len(code) /\ code[o] = "("
          /\ c <= Len(code) /\ code[c] = ")"
          /\ b <= Len(code) /\ code[b] = "{"
       THEN id ELSE <<>>

\* the leftmost of a non-empty set of positions (re.search scans left to right)
Leftmost(ps) == CHOOSE i \in ps : \A j \in ps : i <= j

\* extract_name_from_code(code), <<>> standing for None
extract_name_from_code(code) ==
    LET all        == 1..Len(code)
        lineStarts == {i \in all : i = 1 \/ code[i - 1] = "\n"}
        defs       == {i \in lineStarts : DefNameAt(code, i) # <<>>}
        funs       == {i \in all : KeywordNameAt(code, i, <<"f", "u", "n", "c", "t", "i", "o", "n">>) # <<>>}
        consts     == {i \in all : ConstNameAt(code, i) # <<>>}
        sigs       == {i \in all : SignatureNameAt(code, i) # <<>>}
    IN IF defs # {} THEN DefNameAt(code, Leftmost(defs))
       ELSE IF funs # {}
            THEN KeywordNameAt(code, Leftmost(funs), <<"f", "u", "n", "c", "t", "i", "o", "n">>)
       ELSE IF consts # {} THEN ConstNameAt(code, Leftmost(consts))
       ELSE IF sigs # {} THEN SignatureNameAt(code, Leftmost(sigs))
       ELSE <<>>

\* str(n) for a natural number
RECURSIVE IntToStr(_)
IntToStr(n) ==
    LET digit(d) == <<"0", "1", "2", "3", "4", "5", "6", "7", "8", "9">>[d + 1]
    IN IF n < 10 THEN <<digit(n)>> ELSE IntToStr(n \div 10) \o <<digit(n % 10)>>

\* a naming that takes the raw name whenever there is one, synthetic or not
make_display_name_RawFirst(raw_name, full_name, code, method_id) ==
    IF raw_name # <<>> THEN Strip(raw_name)
    ELSE <<"m", "e", "t", "h", "o", "d", "_">> \o IntToStr(method_id)

\* make_display_name(raw_name, full_name, code, method_id)
make_display_name(raw_name, full_name, code, method_id) ==
    IF raw_name # <<>> /\ ~is_synthetic(raw_name) THEN Strip(raw_name)
    ELSE IF LastGoodToken(full_name, Len(full_name)) # <<>>
         THEN LastGoodToken(full_name, Len(full_name))
    ELSE IF extract_name_from_code(code) # <<>>
            /\ ~is_synthetic(extract_name_from_code(code))
         THEN extract_name_from_code(code)
    ELSE <<"m", "e", "t", "h", "o", "d", "_">> \o IntToStr(method_id)

-----------------------------------------------------------------------------
(* One call of make_display_name on the names and snippets a code property *)
(* graph of a Python or Java project carries                                *)

DisplayRawNames ==
    {<<>>, <<"<", "i", "n", "i", "t", ">">>, <<"<", "m", "o", "d", "u", "l", "e", ">">>, <<"f", "o", "o">>, <<" ", "b", "a", "r", " ">>,
     <<"f", "a", "k", "e", "N", "o", "d", "e">>, <<"o", "p", "e", "r", "a", "t", "o", "r", ".", "a", "d", "d">>}

DisplayFullNames ==
    {<<>>, <<"p", "k", "g", ".", "m", "o", "d", ".", "<", "i", "n", "i", "t", ">">>,
     <<"<", "i", "n", "i", "t", ">">>, <<"a", ".", "b", ":", "<", "l", "a", "m", "b", "d", "a", ">">>,
     <<"p", "k", "g", ".", "C", "l", "s", ".", "r", "u", "n">>, <<"<", "m", "o", "d", "u", "l", "e", ">", ".", "<", "i", "n", "i", "t", ">">>,
     <<"f", "a", "k", "e", ".", "(", ")">>}

DisplayCodes ==
    {<<>>, <<"d", "e", "f", " ", "r", "e", "a", "l", "_", "n", "a", "m", "e", "(", "s", "e", "l", "f", ")", ":">>,
     <<"x", " ", "=", " ", "1">>, <<"f", "u", "n", "c", "t", "i", "o", "n", " ", "g", "o", "(", ")", " ", "{", "}">>,
     <<"i", "n", "t", " ", "m", "a", "i", "n", "(", ")", " ", "{">>}

DisplayIds == {0, 12}

\* the call returns
DN_Make ==
    /\ dn_pc = "call"
    /\ dn_result' = make_display_name(dn_raw, dn_full, dn_code, dn_id)
    /\ dn_pc' = "done"
    /\ UNCHANGED <<dn_raw, dn_full, dn_code, dn_id>>
    /\ UNCHANGED notDn

InitDisplayName ==
    /\ dn_raw \in DisplayRawNames
    /\ dn_full \in DisplayFullNames
    /\ dn_code \in DisplayCodes
    /\ dn_id \in DisplayIds
    /\ dn_result = <<>>
    /\ dn_pc = "call"
    /\ IdleBut("display_name")

NextDisplayName == DN_Make

SpecDisplayName == InitDisplayName /\ [][NextDisplayName]_vars

-----------------------------------------------------------------------------
(* step3_setup_rag.py: RAGSetup.load_sources and RAGSetup.extract_full_code *)

\* s.endswith(suffix)
EndsWith(s, suffix) ==
    /\ Len(suffix) <= Len(s)
    /\ SubSeq(s, Len(s) - Len(suffix) + 1, Len(s)) = suffix

\* the position of the last c in s, 0 if there is none
LastIndexOf(s, c) ==
    LET ps == {i \in 1..Len(s) : s[i] = c}
    IN IF ps = {} THEN 0 ELSE CHOOSE i \in ps : \A j \in ps : j <= i

\* Path(path).name: the last component, trailing slashes dropped
RECURSIVE PathName(_)
PathName(path) ==
    IF path # <<>> /\ path[Len(path)] = "/" THEN PathName(SubSeq(path, 1, Len(path) - 1))
    ELSE SubSeq(path, LastIndexOf(path, "/") + 1, Len(path))

\* Path(path).suffix: from the last dot of the name, unless the name starts or ends with it
PathSuffix(path) ==
    LET name == PathName(path)
        d    == LastIndexOf(name, ".")
    IN IF d > 1 /\ d < Len(name) THEN SubSeq(name, d, Len(name)) ELSE <<>>

\* the file extensions load_sources reads
extensions == {<<".", "p", "y">>, <<".", "j", "s">>, <<".", "t", "s">>, <<".", "c">>,
               <<".", "c", "p", "p">>, <<".", "h">>, <<".", "j", "a", "v", "a">>}

\* k in d, d[k] and d[k] = v on a dictionary kept as its items in insertion order
DictHas(d, k) == \E i \in 1..Len(d) : d[i][1] = k
DictGet(d, k) == d[CHOOSE i \in 1..Len(d) : d[i][1] = k][2]
DictSet(d, k, v) ==
    IF DictHas(d, k) THEN [i \in 1..Len(d) |-> IF d[i][1] = k THEN <<k, v>> ELSE d[i]]
    ELSE Append(d, <<k, v>>)

\* load_sources: each file with a known extension is indexed by its relative
\* path and by its basename
RECURSIVE load_sources(_, _)
load_sources(d, files) ==
    IF files = <<>> THEN d
    ELSE LET rel  == Head(files)[1]
             text == Head(files)[2]
         IN IF Lower(PathSuffix(rel)) \in extensions
            THEN load_sources(DictSet(DictSet(d, rel, text), PathName(rel), text), Tail(files))
            ELSE load_sources(d, Tail(files))

\* the pieces of text between its line feeds
RECURSIVE SplitOnNewline(_)
SplitOnNewline(text) ==
    LET e == RunEnd(text, 1, {"\n"})
    IN IF e >= Len(text) THEN <<text>>
       ELSE <<SubSeq(text, 1, e)>> \o SplitOnNewline(SubSeq(text, e + 2, Len(text)))

\* text.splitlines(): no empty last line after a final line feed
splitlines(text) ==
    LET ps == SplitOnNewline(text)
    IN IF ps[Len(ps)] = <<>> THEN SubSeq(ps, 1, Len(ps) - 1) ELSE ps

\* "\n".join(lines)
RECURSIVE JoinLines(_)
JoinLines(lines) ==
    IF lines = <<>> THEN <<>>
    ELSE IF Len(lines) = 1 THEN lines[1]
    ELSE lines[1] \o <<"\n">> \o JoinLines(Tail(lines))

\* len(ln) - len(ln.lstrip())
Indent(ln) == Len(ln) - Len(LStrip(ln))

\* re.match(r'\s*(def|class)\s+', ln)
IsDefLine(ln) ==
    LET t == LStrip(ln)
    IN \E word \in {<<"d", "e", "f">>, <<"c", "l", "a", "s", "s">>} :
          /\ StartsWith(t, word)
          /\ Len(t) > Len(word)
          /\ t[Len(word) + 1] \in SpaceChars

\* the source text the lookup settles on: <<TRUE, text>>, or <<FALSE, <<>>>> for None
LocateSource(d, filename) ==
    LET partial == {i \in 1..Len(d) : EndsWith(filename, d[i][1]) \/ EndsWith(d[i][1], filename)}
    IN IF DictHas(d, filename) THEN <<TRUE, DictGet(d, filename)>>
       ELSE IF DictHas(d, PathName(filename)) THEN <<TRUE, DictGet(d, PathName(filename))>>
       ELSE IF partial # {} THEN <<TRUE, d[Leftmost(partial)][2]>>
       ELSE <<FALSE, <<>>>>

\* extract_full_code(method) with source_files = d
extract_full_code(d, method) ==
    LET filename == method.filename
        line     == method.lineNumber
        src      == LocateSource(d, filename)
        lines    == splitlines(src[2])
        idx      == Max(0, line - 1)
        start    == idx + 1                      \* lines[idx], counted from 1
        last     == Min(idx + BlockCap, Len(lines))
        breaks   == {i \in (start + 1)..last :
                        IsDefLine(lines[i]) /\ Indent(lines[i]) <= Indent(lines[start])}
        end      == IF breaks = {} THEN last ELSE Leftmost(breaks) - 1
        block    == JoinLines(SubSeq(lines, start, end))
    IN IF ~src[1] THEN method.code
       ELSE IF line <= 0 THEN src[2]
       ELSE IF idx >= Len(lines) THEN method.code
       ELSE IF block # <<>> THEN block ELSE method.code

-----------------------------------------------------------------------------
(* A source directory is loaded, then extract_full_code is called once *)

SourceTree ==
    {<<<<"a", ".", "p", "y">>, <<"d", "e", "f", " ", "f", "(", ")", ":", "\n", " ", " ", "x", "\n", "d", "e", "f", " ", "g", "(", ")", ":", "\n", " ", " ", "y", "\n">>>>,
     <<<<"p", "k", "g", "/", "b", ".", "p", "y">>, <<"c", "l", "a", "s", "s", " ", "B", ":", "\n", " ", " ", "d", "e", "f", " ", "m", "(", "s", "e", "l", "f", ")", ":", "\n", " ", " ", " ", " ", "z", "\n", " ", " ", "d", "e", "f", " ", "n", "(", "s", "e", "l", "f", ")", ":", "\n", " ", " ", " ", " ", "w">>>>,
     <<<<"p", "k", "g", "/", "a", ".", "p", "y">>, <<"q", " ", "=", " ", "1">>>>,
     <<<<"n", "o", "t", "e", "s", ".", "t", "x", "t">>, <<"h", "e", "l", "l", "o">>>>}

\* the directory in rglob order: its files in any order
SourceDirs ==
    {fs \in UNION {[1..n -> SourceTree] : n \in 0..MaxFiles} :
        \A i, j \in 1..Len(fs) : i # j => fs[i][1] # fs[j][1]}

MethodFilenames ==
    {<<>>, <<"a", ".", "p", "y">>, <<"p", "k", "g", "/", "b", ".", "p", "y">>, <<"b", ".", "p", "y">>,
     <<"x", "a", ".", "p", "y">>, <<"s", "r", "c", "/", "p", "k", "g", "/", "b", ".", "p", "y">>, <<"c", ".", "p", "y">>}

MethodCodes == {<<>>, <<"r", "e", "t", "u", "r", "n", " ", "0">>}

\* load_sources(source_dir)
FC_LoadSources ==
    /\ fc_pc = "load"
    /\ source_files' = load_sources(<<>>, fc_files)
    /\ fc_pc' = "extract"
    /\ UNCHANGED <<fc_files, fc_method, fc_result>>
    /\ UNCHANGED notFc

\* extract_full_code(method)
FC_Extract ==
    /\ fc_pc = "extract"
    /\ fc_result' = extract_full_code(source_files, fc_method)
    /\ fc_pc' = "done"
    /\ UNCHANGED <<fc_files, source_files, fc_method>>
    /\ UNCHANGED notFc

InitFullCode ==
    /\ fc_files \in SourceDirs
    /\ source_files = <<>>
    /\ fc_method \in [filename : MethodFilenames, lineNumber : 0..MaxLine, code : MethodCodes]
    /\ fc_result = <<>>
    /\ fc_pc = "load"
    /\ IdleBut("full_code")

NextFullCode == FC_LoadSources \/ FC_Extract

SpecFullCode == InitFullCode /\ [][NextFullCode]_vars

-----------------------------------------------------------------------------
(* EnhancedRAGQueryEngine._preprocess_query and _detect_query_type *)

overview_patterns ==
  << <<"o", "v", "e", "r", "v", "i", "e", "w">>,
     <<"s", "u", "m", "m", "a", "r", "y">>,
     <<"s", "u", "m", "m", "a", "r", "i", "z", "e">>,
     <<"d", "e", "s", "c", "r", "i", "b", "e">>,
     <<"e", "x", "p", "l", "a", "i", "n">>,
     <<"p", "r", "o", "j", "e", "c", "t", " ", "s", "t", "r", "u", "c", "t", "u", "r", "e">>,
     <<"m", "a", "i", "n", " ", "c", "o", "m", "p", "o", "n", "e", "n", "t", "s">>,
     <<"k", "e", "y", " ", "f", "u", "n", "c", "t", "i", "o", "n", "s">> >>

listing_words ==
  << <<"l", "i", "s", "t">>,
     <<"s", "h", "o", "w">>,
     <<"f", "i", "n", "d">>,
     <<"w", "h", "i", "c", "h">>,
     <<"w", "h", "a", "t">> >>

fault_keywords ==
  << <<"v", "u", "l", "n", "e", "r", "a", "b">>,
     <<"i", "n", "j", "e", "c", "t", "i", "o", "n">>,
     <<"x", "s", "s">>,
     <<"c", "s", "r", "f">>,
     <<"u", "n", "s", "a", "f", "e">>,
     <<"e", "x", "p", "l", "o", "i", "t">>,
     <<"b", "u", "g">>,
     <<"l", "e", "a", "k">>,
     <<"o", "v", "e", "r", "f", "l", "o", "w">>,
     <<"r", "a", "c", "e">>,
     <<"d", "e", "a", "d", "l", "o", "c", "k">>,
     <<"s", "a", "n", "i", "t", "i", "z", "e">>,
     <<"v", "a", "l", "i", "d", "a", "t", "i", "o", "n">>,
     <<"a", "t", "t", "a", "c", "k">>,
     <<"s", "e", "c", "u", "r", "i", "t", "y">>,
     <<"e", "v", "a", "l", "(">>,
     <<"e", "x", "e", "c", "(">>,
     <<"p", "i", "c", "k", "l", "e">>,
     <<"s", "u", "b", "p", "r", "o", "c", "e", "s", "s">> >>

structural_keywords ==
  << <<"c", "a", "l", "l", " ", "g", "r", "a", "p", "h">>,
     <<"w", "h", "o", " ", "c", "a", "l", "l", "s">>,
     <<"c", "a", "l", "l", "e", "d", " ", "b", "y">>,
     <<"c", "a", "l", "l", "s">>,
     <<"c", "a", "l", "l", "e", "r">>,
     <<"c", "a", "l", "l", "e", "e">>,
     <<"d", "e", "p", "e", "n", "d", "e", "n", "c", "y">>,
     <<"d", "e", "p", "e", "n", "d", "s", " ", "o", "n">>,
     <<"d", "a", "t", "a", " ", "f", "l", "o", "w">>,
     <<"c", "o", "n", "t", "r", "o", "l", " ", "f", "l", "o", "w">>,
     <<"p", "i", "p", "e", "l", "i", "n", "e">>,
     <<"p", "a", "t", "h">>,
     <<"t", "r", "a", "c", "e">>,
     <<"u", "s", "e", "d", " ", "i", "n">>,
     <<"i", "m", "p", "o", "r", "t", "s">> >>

\* _preprocess_query: the metadata dictionary
preprocess_query(query) ==
    LET q  == Strip(query)
        lq == Lower(q)
    IN [original |-> query,
        clean |-> q,
        is_valid |-> Len(q) >= 3,
        is_overview |-> \E k \in 1..Len(overview_patterns) :
                            WordOccurs(lq, overview_patterns[k]),
        is_listing |-> \E k \in 1..Len(listing_words) :
                            WordOccurs(lq, listing_words[k]),
        specific_entity |-> extract_quoted(q)]

\* _detect_query_type with the structural test placed before the fault test
detect_query_type_StructuralFirst(query, metadata) ==
    IF metadata.is_overview THEN "overview"
    ELSE LET q == Lower(query)
         IN IF \E k \in 1..Len(structural_keywords) : Contains(q, structural_keywords[k])
            THEN "structural"
            ELSE IF \E k \in 1..Len(fault_keywords) : Contains(q, fault_keywords[k])
                 THEN "fault"
                 ELSE "semantic"

\* _detect_query_type(query, metadata)
detect_query_type(query, metadata) ==
    IF metadata.is_overview THEN "overview"
    ELSE LET q == Lower(query)
         IN IF \E k \in 1..Len(fault_keywords) : Contains(q, fault_keywords[k])
            THEN "fault"
            ELSE IF \E k \in 1..Len(structural_keywords) : Contains(q, structural_keywords[k])
                 THEN "structural"
                 ELSE "semantic"

-----------------------------------------------------------------------------
(* Automatic classification of a query: query() with query_type = "auto"    *)
(* runs _preprocess_query and then _detect_query_type on the cleaned text   *)

\* the words (one entry is a pair of words) queries are typed from
ClassifyWords ==
    { <<"o", "v", "e", "r", "v", "i", "e", "w">>,
      <<"o", "f", " ", "t", "h", "i", "s">>,
      <<"p", "r", "o", "j", "e", "c", "t">>,
      <<"S", "Q", "L">>,
      <<"i", "n", "j", "e", "c", "t", "i", "o", "n">>,
      <<"w", "h", "o">>,
      <<"c", "a", "l", "l", "s">>,
      <<"X">>,
      <<"t", "r", "a", "c", "e", "s">> }

RECURSIVE WordLists(_)
WordLists(n) ==
    IF n = 0 THEN {<<>>}
    ELSE LET shorter == WordLists(n - 1)
         IN shorter \cup {Append(ws, w) : ws \in {t \in shorter : Len(t) = n - 1},
                                          w \in ClassifyWords}

\* the text of a list of words, one space between two words
RECURSIVE JoinWords(_)
JoinWords(ws) ==
    IF ws = <<>> THEN <<>>
    ELSE IF Len(ws) = 1 THEN ws[1]
         ELSE ws[1] \o <<" ">> \o JoinWords(Tail(ws))

\* line 533: processed = self._preprocess_query(question)
CL_Preprocess ==
    /\ cl_pc = "start"
    /\ cl_meta' = preprocess_query(cl_query)
    /\ cl_pc' = "preprocessed"
    /\ UNCHANGED notCl
    /\ UNCHANGED <<cl_words, cl_query, cl_type>>

\* lines 542-543: query_type = self._detect_query_type(processed["clean"], processed)
CL_Detect ==
    /\ cl_pc = "preprocessed"
    /\ cl_type' = detect_query_type(cl_meta.clean, cl_meta)
    /\ cl_pc' = "done"
    /\ UNCHANGED notCl
    /\ UNCHANGED <<cl_words, cl_query, cl_meta>>

InitClassify ==
    /\ cl_words \in WordLists(MaxQueryWords)
    /\ cl_query = JoinWords(cl_words)
    /\ cl_meta = <<>>
    /\ cl_type = "none"
    /\ cl_pc = "start"
    /\ IdleBut("classify")

NextClassify == CL_Preprocess \/ CL_Detect

SpecClassify == InitClassify /\ [][NextClassify]_vars

-----------------------------------------------------------------------------
(* RAGSetup.build_graph_index and RAGSetup.graph_context                   *)
(* An edge is a record [src, dst, label]; nodes is the set of node ids of   *)
(* id_to_node.                                                              *)

\* self.outgoing[n]: the (dst, label) pairs of the edges leaving n, in edge order
Outgoing(edges, n) ==
    LET mine == SelectSeq(edges, LAMBDA e : e.src = n)
    IN [i \in 1..Len(mine) |-> <<mine[i].dst, mine[i].label>>]

\* self.incoming[n]: the (src, label) pairs of the edges entering n, in edge order
Incoming(edges, n) ==
    LET mine == SelectSeq(edges, LAMBDA e : e.dst = n)
    IN [i \in 1..Len(mine) |-> <<mine[i].src, mine[i].label>>]

\* a pass of the inner for loop that follows edges of every label
RECURSIVE CtxScan_AnyLabel(_, _, _, _, _, _, _)
CtxScan_AnyLabel(adj, i, visited, acc, q, lv, nodes) ==
    IF i > Len(adj) THEN [visited |-> visited, acc |-> acc, q |-> q]
    ELSE LET dst == adj[i][1]
         IN IF dst \notin visited
            THEN CtxScan_AnyLabel(adj, i + 1, visited \cup {dst},
                                  IF dst \in nodes THEN Append(acc, dst) ELSE acc,
                                  Append(q, <<dst, lv + 1>>), lv, nodes)
            ELSE CtxScan_AnyLabel(adj, i + 1, visited, acc, q, lv, nodes)

\* One pass of the inner for loop of a walk over the adjacency list adj,
\* from position i: returns the visited set, the collected ids and the queue.
RECURSIVE CtxScan(_, _, _, _, _, _, _)
CtxScan(adj, i, visited, acc, q, lv, nodes) ==
    IF i > Len(adj) THEN [visited |-> visited, acc |-> acc, q |-> q]
    ELSE LET dst == adj[i][1]
             lab == adj[i][2]
         IN IF lab = "CALL" /\ dst \notin visited
            THEN CtxScan(adj, i + 1, visited \cup {dst},
                         IF dst \in nodes THEN Append(acc, dst) ELSE acc,
                         Append(q, <<dst, lv + 1>>), lv, nodes)
            ELSE CtxScan(adj, i + 1, visited, acc, q, lv, nodes)

\* One breadth-first walk of graph_context; Adj(n) is outgoing or incoming of n
RECURSIVE CtxWalk(_, _, _, _, _, _, _)
CtxWalk(edges, out, q, visited, acc, depth, nodes) ==
    IF q = <<>> THEN acc
    ELSE LET nid == Head(q)[1]
             lv  == Head(q)[2]
         IN IF lv >= depth
            THEN CtxWalk(edges, out, Tail(q), visited, acc, depth, nodes)
            ELSE LET adj == IF out THEN Outgoing(edges, nid) ELSE Incoming(edges, nid)
                     r   == CtxScan(adj, 1, visited, acc, Tail(q), lv, nodes)
                 IN CtxWalk(edges, out, r.q, r.visited, r.acc, depth, nodes)

\* graph_context(method_id, depth): the ids of calls and of called_by
graph_context(edges, nodes, method_id, depth) ==
    [calls     |-> CtxWalk(edges, TRUE,  <<<<method_id, 0>>>>, {}, <<>>, depth, nodes),
     called_by |-> CtxWalk(edges, FALSE, <<<<method_id, 0>>>>, {}, <<>>, depth, nodes)]

\* f"{filename}:{line_number}:{display_name}", the key of a document
DocKey(filename, line_number, display_name) ==
    filename \o <<":">> \o IntToStr(line_number) \o <<":">> \o display_name

\* a scored document (score, Document): metadata method_id (0 when there is
\* none), display_name, filename and line_number, the page content, and the
\* key its metadata formats to
ScoredDoc(score, method_id, display_name, filename, line_number, page_content) ==
    [mid |-> method_id, key |-> DocKey(filename, line_number, display_name),
     score |-> score, name |-> display_name, file |-> filename,
     line |-> line_number, content |-> page_content]

\* enrich_methods for methods that carry an id only: one entry per method,
\* named m<id>, at line <id> of one file, with the call lists of graph_context
EnrichIndex(edges, nodes, methods, depth) ==
    [m \in methods |->
        LET ctx == graph_context(edges, nodes, m, depth)
        IN [id |-> m, display_name |-> <<"m">> \o IntToStr(m),
            filename |-> <<"a", ".", "p", "y">>, lineNumber |-> m, full_code |-> <<>>,
            calls_full |-> ctx.calls, called_by_full |-> ctx.called_by]]

-----------------------------------------------------------------------------
(* EnhancedRAGQueryEngine._graph_expand                                     *)
(* Scores are scaled by ScoreUnit.                                          *)

\* scores are multiples of 1/ScoreUnit, so that every product with 0.6^k is exact
ScoreUnit == Pow(5, (MaxId * (MaxId + 1)) \div 2)

\* a decay that leaves the first hop at the score of its parent: 0.6 ** depth
DecayScore_FromDepthOne(base_score, depth) ==
    (base_score * Pow(3, depth)) \div Pow(5, depth)

\* base_score * (0.6 ** (depth + 1))
DecayScore(base_score, depth) ==
    (base_score * Pow(3, depth + 1)) \div Pow(5, depth + 1)

\* the seeding loop: (mid, score, 0) for every document that has a method_id
RECURSIVE SeedQueue(_)
SeedQueue(docs) ==
    IF docs = <<>> THEN <<>>
    ELSE (IF Head(docs).mid # 0 THEN <<(<<Head(docs).mid, Head(docs).score, 0>>)>> ELSE <<>>)
         \o SeedQueue(Tail(docs))

\* ids of the entries of a calls_full / called_by_full list (first 50) that
\* are non-zero and not yet in seen
UnseenIds(full, seen) ==
    SelectSeq(Take(full, NeighborCap), LAMBDA nid : nid # 0 /\ nid \notin seen)

\* the neighbors list built for a popped method
NeighborsOf(method, seen) ==
    UnseenIds(method.calls_full, seen) \o UnseenIds(method.called_by_full, seen)

\* a popleft that reads the head and leaves it in the queue
PopLeft_Peek(q) == q

\* queue.popleft(): the queue that remains
PopLeft(q) == Tail(q)

\* an insertion that puts a document before the documents of equal score: a
\* descending sort that does not keep the order of ties
RECURSIVE InsertDesc_TiesReversed(_, _)
InsertDesc_TiesReversed(sorted, d) ==
    IF sorted = <<>> THEN <<d>>
    ELSE IF Head(sorted).score > d.score
         THEN <<Head(sorted)>> \o InsertDesc_TiesReversed(Tail(sorted), d)
         ELSE <<d>> \o sorted

\* sorted(combined, key=score, reverse=True): stable, descending
RECURSIVE InsertDesc(_, _)
InsertDesc(sorted, d) ==
    IF sorted = <<>> THEN <<d>>
    ELSE IF Head(sorted).score >= d.score
         THEN <<Head(sorted)>> \o InsertDesc(Tail(sorted), d)
         ELSE <<d>> \o sorted

\* a sort that leaves the documents in the order it was given them
SortDesc_Unsorted(docs) == docs

RECURSIVE SortDesc(_)
SortDesc(docs) ==
    IF docs = <<>> THEN <<>>
    ELSE InsertDesc(SortDesc(SubSeq(docs, 1, Len(docs) - 1)), docs[Len(docs)])

\* the deduplication loop: keep the first document of every key
RECURSIVE DedupByKey(_, _)
DedupByKey(docs, seen) ==
    IF docs = <<>> THEN <<>>
    ELSE IF Head(docs).key \in seen
         THEN DedupByKey(Tail(docs), seen)
         ELSE <<Head(docs)>> \o DedupByKey(Tail(docs), seen \cup {Head(docs).key})

\* a merge that keeps, for every key, the first of the added documents
\* and then the original ones, without sorting
MergeExpanded_AddedFirst(docs, extra) == DedupByKey(extra \o docs, {})

\* the merge that ends _graph_expand
MergeExpanded(docs, extra) == DedupByKey(SortDesc(docs \o extra), {})

\* line 365: the test of the while loop
WhileTest == queue # <<>> /\ Len(added) < max_add

\* lines 354-363: seed the queue and seen_ids from the scored documents
GE_Seed ==
    /\ ge_pc = "start"
    /\ queue' = SeedQueue(scored_docs)
    /\ seen_ids' = {d.mid : d \in {x \in Range(scored_docs) : x.mid # 0}}
    /\ added' = <<>>
    /\ added_from' = <<>>
    /\ ge_pc' = "loop"
    /\ ge_steps' = ge_steps + 1
    /\ UNCHANGED notGe
    /\ UNCHANGED <<enriched, scored_docs, hops, max_add, neighbors, cur, ge_out>>

\* lines 365-381: the while test holds; pop an entry, skip it (depth >= hops or
\* unknown method) or build its neighbors list
GE_Pop ==
    /\ ge_pc = "loop"
    /\ WhileTest
    /\ cur' = Head(queue)
    /\ queue' = PopLeft(queue)
    /\ IF Head(queue)[3] >= hops \/ Head(queue)[1] \notin DOMAIN enriched
       THEN /\ neighbors' = <<>>
            /\ ge_pc' = "loop"
       ELSE /\ neighbors' = NeighborsOf(enriched[Head(queue)[1]], seen_ids)
            /\ ge_pc' = IF neighbors' = <<>> THEN "loop" ELSE "for"
    /\ ge_steps' = ge_steps + 1
    /\ UNCHANGED notGe
    /\ UNCHANGED <<enriched, scored_docs, hops, max_add, seen_ids, added, ge_out, added_from>>

\* the for loop without its `if len(added) >= max_add: break`
GE_Neighbor_NoBreak ==
    /\ ge_pc = "for"
    /\ neighbors # <<>>
    /\ LET nid   == Head(neighbors)
           score == DecayScore(cur[2], cur[3])
       IN /\ seen_ids' = seen_ids \cup {nid}
          /\ neighbors' = Tail(neighbors)
          /\ IF nid \notin DOMAIN enriched
             THEN UNCHANGED <<added, queue, added_from>>
             ELSE /\ added' = Append(added,
                                 ScoredDoc(score, enriched[nid].id,
                                           enriched[nid].display_name,
                                           enriched[nid].filename,
                                           enriched[nid].lineNumber,
                                           enriched[nid].full_code))
                  /\ queue' = Append(queue, <<nid, score, cur[3] + 1>>)
                  /\ added_from' = Append(added_from, <<cur[2], cur[3]>>)
    /\ ge_pc' = IF neighbors' = <<>> THEN "loop" ELSE "for"
    /\ ge_steps' = ge_steps + 1
    /\ UNCHANGED notGe
    /\ UNCHANGED <<enriched, scored_docs, hops, max_add, cur, ge_out>>

\* lines 382-400: one iteration of `for nid in neighbors`
GE_Neighbor ==
    /\ ge_pc = "for"
    /\ neighbors # <<>>
    /\ LET nid   == Head(neighbors)
           score == DecayScore(cur[2], cur[3])
       IN /\ seen_ids' = seen_ids \cup {nid}
          /\ IF nid \notin DOMAIN enriched
             THEN /\ UNCHANGED <<added, queue, added_from>>
                  /\ neighbors' = Tail(neighbors)
             ELSE /\ added' = Append(added,
                                 ScoredDoc(score, enriched[nid].id,
                                           enriched[nid].display_name,
                                           enriched[nid].filename,
                                           enriched[nid].lineNumber,
                                           enriched[nid].full_code))
                  /\ queue' = Append(queue, <<nid, score, cur[3] + 1>>)
                  /\ added_from' = Append(added_from, <<cur[2], cur[3]>>)
                  /\ neighbors' = IF Len(added') >= max_add THEN <<>> ELSE Tail(neighbors)
    /\ ge_pc' = IF neighbors' = <<>> THEN "loop" ELSE "for"
    /\ ge_steps' = ge_steps + 1
    /\ UNCHANGED notGe
    /\ UNCHANGED <<enriched, scored_docs, hops, max_add, cur, ge_out>>

\* lines 365, 402-413: the while test fails; merge, deduplicate, sort, return
GE_Merge ==
    /\ ge_pc = "loop"
    /\ ~WhileTest
    /\ ge_out' = MergeExpanded(scored_docs, added)
    /\ ge_pc' = "done"
    /\ ge_steps' = ge_steps + 1
    /\ UNCHANGED notGe
    /\ UNCHANGED <<enriched, scored_docs, hops, max_add, queue, seen_ids, added,
                   neighbors, cur, added_from>>

-----------------------------------------------------------------------------
(* EnhancedRAGQueryEngine: literal lookup, fusion of the retrieved lists    *)
(* and context blocks.  A stored document is a record [method_id,           *)
(* display_name, filename, line_number, page_content]; an enriched method   *)
(* is a record with the fields enrich_methods writes.                       *)

\* the collections of initialize and the views of query, in the order of the code
StoreNames == <<"semantic", "structural", "fault", "hybrid">>

\* a result dictionary of query(); an answer is its fixed text and the value
\* formatted into it
Answer(text, arg) == [text |-> text, arg |-> arg]
Result(query_type, answer, sources) ==
    [query_type |-> query_type, answer |-> answer, sources |-> sources]

NoResult == Result("none", Answer("", <<>>), <<>>)

InvalidText == "Query too short or invalid. Please provide a more specific question."
NoMatchText == "No method matching '<{needle}>' found in this codebase."
FoundText == "Found {len(matches)} function(s) matching '<{needle}>':"
NoRelevantText == "No relevant code found for your query. Try rephrasing or asking about specific functions/files."
LLMErrorText == "LLM Error: {e}"
OverviewErrorText == "LLM Error generating overview: {e}"
LLMResponseText == "{resp.content}"

\* `value or "?"` for a line number; a line is written with its digits so
\* that "?" is a value of the same kind
LineOrUnknown(line) == IF line = 0 THEN <<"?">> ELSE IntToStr(line)

\* `value or "?"` for a string
OrUnknown(str) == IF str = <<>> THEN <<"?">> ELSE str

\* the literal of _literal_lookup: the quoted substring, else the first
\* <token>, else <<>> (None)
LiteralOf(question) ==
    IF extract_quoted(question) # <<>> THEN extract_quoted(question)
    ELSE AngleToken(question)

\* needle = literal.strip().lower()
NeedleOf(literal) == Lower(Strip(literal))

\* _literal_lookup(question) over self.enriched_methods; NoResult stands for None
literal_lookup(question, methods) ==
    LET literal == LiteralOf(question)
        needle  == NeedleOf(literal)
        matches == SelectSeq(methods, LAMBDA m : Contains(Lower(m.display_name), needle))
        shown   == Take(matches, 20)
    IN IF literal = <<>> THEN NoResult
       ELSE IF matches = <<>> THEN Result("literal", Answer(NoMatchText, needle), <<>>)
       ELSE Result("literal", Answer(FoundText, needle),
                   [i \in 1..Len(shown) |->
                       [function |-> OrUnknown(shown[i].display_name),
                        file |-> shown[i].filename,
                        line |-> LineOrUnknown(shown[i].lineNumber)]])

\* re.findall(r"[A-Za-z_][A-Za-z0-9_]+", s) from position i on
RECURSIVE IdentTokens(_, _)
IdentTokens(s, i) ==
    IF i > Len(s) THEN <<>>
    ELSE IF IsIdentStart(s[i]) /\ i < Len(s) /\ IsWordChar(s[i + 1])
         THEN <<IdentAt(s, i)>> \o IdentTokens(s, i + Len(IdentAt(s, i)))
         ELSE IdentTokens(s, i + 1)

\* hay.count(needle) from position i on: occurrences that do not overlap
RECURSIVE StrCount(_, _, _)
StrCount(hay, needle, i) ==
    IF i + Len(needle) - 1 > Len(hay) THEN 0
    ELSE IF OccursAt(hay, i, needle) THEN 1 + StrCount(hay, needle, i + Max(1, Len(needle)))
    ELSE StrCount(hay, needle, i + 1)

\* simple_keyword_score(text, keywords)
RECURSIVE simple_keyword_score(_, _)
simple_keyword_score(text, keywords) ==
    IF keywords = <<>> THEN 0
    ELSE StrCount(Lower(text), Lower(Head(keywords)), 1)
         + simple_keyword_score(text, Tail(keywords))

\* the keywords of the rerank of a fault query
fault_rerank_keywords ==
    <<<<"u", "n", "s", "a", "f", "e">>,
      <<"s", "e", "c", "u", "r", "i", "t", "y">>,
      <<"v", "a", "l", "i", "d", "a", "t", "e">>,
      <<"s", "a", "n", "i", "t", "i", "z", "e">>,
      <<"e", "r", "r", "o", "r">>,
      <<"e", "x", "c", "e", "p", "t", "i", "o", "n">>,
      <<"t", "r", "y">>,
      <<"h", "a", "n", "d", "l", "e">>,
      <<"p", "i", "c", "k", "l", "e">>,
      <<"e", "v", "a", "l">>,
      <<"e", "x", "e", "c">>,
      <<"s", "u", "b", "p", "r", "o", "c", "e", "s", "s">>,
      <<"s", "h", "e", "l", "l">>>>

\* the last n entries of a list: list[-n:]
LastN(list, n) == SubSeq(list, Max(1, Len(list) - n + 1), Len(list))

\* the store weights of _merge_and_score in twentieths
StoreWeights(query_type) ==
    IF query_type = "structural"
    THEN [semantic |-> 4, structural |-> 12, fault |-> 1, hybrid |-> 3]
    ELSE IF query_type = "fault"
    THEN [semantic |-> 2, structural |-> 2, fault |-> 12, hybrid |-> 4]
    ELSE [semantic |-> 8, structural |-> 5, fault |-> 2, hybrid |-> 5]

\* fused scores are multiples of 1/FusedUnit: every rank score, weight, keyword
\* boost and one-hop decay of the model is exact
FusedUnit == 24 * ScoreUnit

\* a collection that keeps the score of the first occurrence of a key
AddCandidate_FirstOnly(cands, d, inc) ==
    LET key == DocKey(d.filename, d.line_number, d.display_name)
    IN IF \E i \in 1..Len(cands) : cands[i].key = key
       THEN cands
       ELSE Append(cands, [key |-> key, score |-> inc, doc |-> d])

\* candidate_scores[key] += inc, candidate_docs keeping the first document of a key
AddCandidate(cands, d, inc) ==
    LET key == DocKey(d.filename, d.line_number, d.display_name)
    IN IF \E i \in 1..Len(cands) : cands[i].key = key
       THEN [i \in 1..Len(cands) |->
                IF cands[i].key = key THEN [cands[i] EXCEPT !.score = @ + inc] ELSE cands[i]]
       ELSE Append(cands, [key |-> key, score |-> inc, doc |-> d])

\* the inner loop over one retrieved list from rank (counted from 0) on:
\* base_score = max(0, 1 - rank / max(1, len(docs))), weighted by w twentieths
RECURSIVE AddRanked(_, _, _, _)
AddRanked(cands, docs, rank, w) ==
    IF rank >= Len(docs) THEN cands
    ELSE AddRanked(AddCandidate(cands, docs[rank + 1],
                       (Max(0, Len(docs) - rank) * w * FusedUnit) \div (Max(1, Len(docs)) * 20)),
                   docs, rank + 1, w)

\* the loop over retrieved.items(), from store number n on
RECURSIVE CollectCandidates(_, _, _, _)
CollectCandidates(cands, retrieved, n, weights) ==
    IF n > Len(StoreNames) THEN cands
    ELSE CollectCandidates(
             AddRanked(cands, retrieved[StoreNames[n]], 0, weights[StoreNames[n]]),
             retrieved, n + 1, weights)

\* _merge_and_score(retrieved, query, query_type, top_k)
merge_and_score(retrieved, query, query_type, top_k) ==
    LET cands    == CollectCandidates(<<>>, retrieved, 1, StoreWeights(query_type))
        keywords == IF query_type = "fault" THEN fault_rerank_keywords
                    ELSE LastN(IdentTokens(Lower(query), 1), 10)
        boosted  == [i \in 1..Len(cands) |->
                        [cands[i] EXCEPT !.score = @ +
                            (2 * simple_keyword_score(cands[i].doc.page_content, keywords)
                               * FusedUnit) \div 100]]
        ranked   == Take(SortDesc(boosted), top_k * 3)
    IN [i \in 1..Len(ranked) |->
           ScoredDoc(ranked[i].score, ranked[i].doc.method_id, ranked[i].doc.display_name,
                     ranked[i].doc.filename, ranked[i].doc.line_number,
                     ranked[i].doc.page_content)]

\* a cut that leaves no marker: content[:MAX_CODE_LENGTH]
TrimContent_NoMarker(content) == Take(content, MaxCodeLength)

\* content[:MAX_CODE_LENGTH] + "\n\n... (truncated)" for a long content
TrimContent(content) ==
    IF Len(content) > MaxCodeLength
    THEN Take(content, MaxCodeLength) \o <<"\n", "\n", ".", ".", ".", " ", "(", "t", "r", "u", "n", "c", "a", "t", "e", "d", ")">>
    ELSE content

\* _prepare_context_blocks: the blocks, one record per formatted block, and
\* the sources, for the first max_blocks documents
prepare_context_blocks(scored, max_blocks) ==
    LET taken == Take(scored, max_blocks)
    IN [blocks  |-> [i \in 1..Len(taken) |->
                        [n |-> i, name |-> OrUnknown(taken[i].name),
                         file |-> OrUnknown(taken[i].file),
                         line |-> LineOrUnknown(taken[i].line),
                         content |-> TrimContent(taken[i].content)]],
        sources |-> [i \in 1..Len(taken) |->
                        [function |-> OrUnknown(taken[i].name),
                         file |-> OrUnknown(taken[i].file),
                         line |-> LineOrUnknown(taken[i].line)]]]

\* a context that is never found blank
ContextIsBlank_Never(blocks) == FALSE

\* not context.strip(): every block holds the text "Function:", so the joined
\* context is blank exactly when there is no block
ContextIsBlank(blocks) == blocks = <<>>

-----------------------------------------------------------------------------
(* The inputs of _graph_expand *)


\* a call graph: at most MaxEdges CALL edges between nodes, listed in (src, dst) order
CallGraphs ==
    {SetToSeq({(p[1] * (MaxId + 1)) + p[2] : p \in E}) :
        E \in {F \in SUBSET (Nodes \X Nodes) : Cardinality(F) <= MaxEdges}}

EdgeList(codes) ==
    [i \in 1..Len(codes) |->
        [src |-> codes[i] \div (MaxId + 1), dst |-> codes[i] % (MaxId + 1), label |-> "CALL"]]

\* the documents _merge_and_score can hand over: distinct keys, sorted by
\* descending score; method_id 0 stands for metadata without an id
RECURSIVE SeedLists(_)
SeedLists(n) ==
    IF n = 0 THEN {<<>>}
    ELSE LET shorter == SeedLists(n - 1)
         IN shorter \cup
            {Append(s, m) : s \in {t \in shorter : Len(t) = n - 1},
                            m \in 0..MaxId} 

SeedDocs(ids) ==
    [i \in 1..Len(ids) |->
        ScoredDoc((Len(ids) - i + 1) * ScoreUnit, ids[i], <<"m">> \o IntToStr(ids[i]),
                  <<"a", ".", "p", "y">>, ids[i], <<>>)]

InitExpand ==
    /\ \E g \in CallGraphs, methods \in {Nodes, Nodes \ {MaxId}} :
          enriched = EnrichIndex(EdgeList(g), Nodes, methods, GraphDepth)
    /\ \E ids \in {s \in SeedLists(MaxSeeds) : \A i, j \in 1..Len(s) : i # j => s[i] # s[j]} :
          scored_docs = SeedDocs(ids)
    /\ hops \in 0..MaxHops
    /\ max_add \in 0..MaxAddBound
    /\ queue = <<>>
    /\ seen_ids = {}
    /\ added = <<>>
    /\ neighbors = <<>>
    /\ cur = <<0, 0, 0>>
    /\ ge_out = <<>>
    /\ ge_pc = "start"
    /\ ge_steps = 0
    /\ added_from = <<>>
    /\ IdleBut("expand")

NextExpand == GE_Seed \/ GE_Pop \/ GE_Neighbor \/ GE_Merge

SpecExpand == InitExpand /\ [][NextExpand]_vars

-----------------------------------------------------------------------------
(* _graph_expand on a project of five methods, from two fused documents     *)
(* whose scores are in the ratio of one hop of decay                        *)

MaxDecayHops == 3
MaxDecayAdd == 4

\* the methods of the project
DecayNodes == 1..5

\* the CALL edges the project can have, in edge order
DecayEdges ==
    << [src |-> 1, dst |-> 3, label |-> "CALL"], [src |-> 2, dst |-> 4, label |-> "CALL"],
       [src |-> 3, dst |-> 5, label |-> "CALL"], [src |-> 4, dst |-> 3, label |-> "CALL"],
       [src |-> 5, dst |-> 1, label |-> "CALL"], [src |-> 1, dst |-> 2, label |-> "CALL"] >>

\* the fused documents: method 1 at 5 units and method 2 at 3 units
DecaySeeds ==
    << ScoredDoc(5 * ScoreUnit, 1, <<"m", "1">>, <<"a", ".", "p", "y">>, 1, <<>>),
       ScoredDoc(3 * ScoreUnit, 2, <<"m", "2">>, <<"a", ".", "p", "y">>, 2, <<>>) >>

InitDecay ==
    /\ \E keep \in SUBSET (1..Len(DecayEdges)), depth \in 1..GraphDepth :
          enriched = EnrichIndex(SelectSeq(DecayEdges,
                                     LAMBDA e : \E i \in keep : DecayEdges[i] = e),
                                 DecayNodes, DecayNodes, depth)
    /\ scored_docs = DecaySeeds
    /\ hops \in 1..MaxDecayHops
    /\ max_add \in 1..MaxDecayAdd
    /\ queue = <<>>
    /\ seen_ids = {}
    /\ added = <<>>
    /\ neighbors = <<>>
    /\ cur = <<0, 0, 0>>
    /\ ge_out = <<>>
    /\ ge_pc = "start"
    /\ ge_steps = 0
    /\ added_from = <<>>
    /\ IdleBut("expand")

SpecDecay == InitDecay /\ [][NextExpand]_vars

-----------------------------------------------------------------------------
(* EnhancedRAGQueryEngine.initialize and EnhancedRAGQueryEngine.query, one  *)
(* step per call that query() makes                                         *)

\* the engine state every step of query() after initialize leaves alone
engineVars == <<initialized, vector_stores, enriched_methods, enriched, methods_by_file,
               all_method_names, config_top_k>>

\* the arguments of the call
argVars == <<q_question, q_top_k>>

\* the locals of _graph_expand
geLocals == <<scored_docs, hops, max_add, queue, seen_ids, added, neighbors, cur,
              ge_out, ge_pc, ge_steps, added_from>>

\* self.method_by_id after the loading loop: the last method of every id
MethodById(methods) ==
    [id \in {methods[i].id : i \in 1..Len(methods)} |->
        methods[CHOOSE i \in 1..Len(methods) :
                   /\ methods[i].id = id
                   /\ \A j \in 1..Len(methods) : methods[j].id = id => j <= i]]

\* self.method_by_id[mid] = method for every loaded method: the dictionary
\* is never cleared, an id it has is overwritten
RegisterById(by_id, methods) ==
    [id \in DOMAIN by_id \cup DOMAIN MethodById(methods) |->
        IF id \in DOMAIN MethodById(methods) THEN MethodById(methods)[id] ELSE by_id[id]]

\* self.methods_by_file[fname].append(method) for every loaded method
RECURSIVE RegisterByFile(_, _)
RegisterByFile(by_file, methods) ==
    IF methods = <<>> THEN by_file
    ELSE LET m == Head(methods)
         IN RegisterByFile(
                DictSet(by_file, m.filename,
                        (IF DictHas(by_file, m.filename) THEN DictGet(by_file, m.filename)
                         ELSE <<>>) \o <<m>>),
                Tail(methods))

\* self.all_method_names.append(name) for every loaded method that has a name
RegisterNames(names, methods) ==
    names \o [i \in 1..Len(SelectSeq(methods, LAMBDA m : m.display_name # <<>>)) |->
                 SelectSeq(methods, LAMBDA m : m.display_name # <<>>)[i].display_name]

\* top_k_local = max(top_k, self.config.TOP_K_RESULTS or 5)
TopKLocal == Max(q_top_k, IF config_top_k = 0 THEN DefaultTopK ELSE config_top_k)

\* what similarity_search(query, k) can return: the k documents of the
\* collection nearest to the query, in the order the embedding gives them
Rankings(docs, k) ==
    {r \in [1..Min(k, Len(docs)) -> 1..Len(docs)] :
        \A i, j \in DOMAIN r : i # j => r[i] # r[j]}

\* a guard that never finds the engine initialized
InitializeIsDone_Never(flag) == FALSE

\* if self._initialized: return
InitializeIsDone(flag) == flag

\* self.initialize(): load the four stores and the enriched methods, then
\* the LLM smoke test, which raises when the LLM does not answer
Q_Initialize ==
    /\ q_pc = "call"
    /\ IF InitializeIsDone(initialized)
       THEN /\ q_pc' = "preprocess"
            /\ UNCHANGED <<engineVars, diskVars, q_log>>
       ELSE /\ vector_stores' =
                  [n \in DOMAIN store_health |->
                      IF store_health[n] = "unloadable" THEN "None" ELSE "store"]
            \* the Chroma constructor creates a collection that does not exist
            /\ chroma' = [n \in DOMAIN chroma |->
                            IF store_health[n] # "unloadable" /\ ~chroma[n].exists
                            THEN [exists |-> TRUE, docs |-> <<>>] ELSE chroma[n]]
            \* a missing file and a file json.load fails on leave the list as it is
            /\ enriched_methods' = IF enriched_json.exists /\ enriched_json.valid
                                   THEN enriched_json.methods ELSE enriched_methods
            /\ enriched' = IF enriched_json.exists /\ enriched_json.valid
                           THEN RegisterById(enriched, enriched_json.methods) ELSE enriched
            /\ methods_by_file' = IF enriched_json.exists /\ enriched_json.valid
                                  THEN RegisterByFile(methods_by_file, enriched_json.methods)
                                  ELSE methods_by_file
            /\ all_method_names' = IF enriched_json.exists /\ enriched_json.valid
                                   THEN RegisterNames(all_method_names, enriched_json.methods)
                                   ELSE all_method_names
            /\ q_log' = Append(q_log, "llm.invoke:Ready?")
            /\ \E llm_ok \in BOOLEAN :
                  /\ initialized' = llm_ok
                  /\ q_pc' = IF llm_ok THEN "preprocess" ELSE "raised"
            /\ UNCHANGED <<enriched_json, store_health, config_top_k>>
    /\ UNCHANGED <<argVars, q_type, q_meta, q_idx, q_retrieved, q_blocks, q_sources,
                   q_result, q_failed, q_observed, geLocals>>
    /\ UNCHANGED notQ

\* lines 533-535: preprocess; a query shorter than three characters is invalid
Q_Preprocess ==
    /\ q_pc = "preprocess"
    /\ q_meta' = preprocess_query(q_question)
    /\ IF q_meta'.is_valid
       THEN /\ q_pc' = "literal"
            /\ UNCHANGED q_result
       ELSE /\ q_pc' = "returned"
            /\ q_result' = Result("invalid", Answer(InvalidText, <<>>), <<>>)
    /\ UNCHANGED <<engineVars, diskVars, argVars, q_type, q_idx, q_retrieved, q_blocks,
                   q_sources, q_log, q_failed, q_observed, geLocals>>
    /\ UNCHANGED notQ

\* lines 537-540: the literal lookup; its dictionary, when there is one, is returned
Q_Literal ==
    /\ q_pc = "literal"
    /\ LET literal == literal_lookup(q_question, enriched_methods)
       IN IF literal # NoResult
          THEN /\ q_result' = literal
               /\ q_pc' = "returned"
          ELSE /\ q_pc' = "detect"
               /\ UNCHANGED q_result
    /\ UNCHANGED <<engineVars, diskVars, argVars, q_type, q_meta, q_idx, q_retrieved,
                   q_blocks, q_sources, q_log, q_failed, q_observed, geLocals>>
    /\ UNCHANGED notQ

\* a test that takes every query type for "auto"
TypeIsAuto_Always(query_type) == TRUE

\* if query_type == "auto":
TypeIsAuto(query_type) == query_type = "auto"

\* lines 542-547: classify an "auto" query; an overview goes to its handler
Q_Detect ==
    /\ q_pc = "detect"
    /\ q_type' = IF TypeIsAuto(q_type) THEN detect_query_type(q_meta.clean, q_meta)
                 ELSE q_type
    /\ q_pc' = IF q_type' = "overview" THEN "overview" ELSE "retrieve"
    /\ q_idx' = 1
    /\ q_retrieved' = [n \in {} |-> <<>>]
    /\ q_observed' = [n \in {} |-> <<>>]
    /\ UNCHANGED <<engineVars, diskVars, argVars, q_meta, q_blocks, q_sources, q_result,
                   q_log, q_failed, geLocals>>
    /\ UNCHANGED notQ

\* _handle_overview: one LLM call over the statistics; an exception becomes
\* the answer
Q_HandleOverview ==
    /\ q_pc = "overview"
    /\ q_log' = Append(q_log, "llm.invoke:overview")
    /\ \E llm_ok \in BOOLEAN :
          q_result' = Result("overview",
                             Answer(IF llm_ok THEN LLMResponseText ELSE OverviewErrorText, <<>>),
                             << [function |-> <<"P", "r", "o", "j", "e", "c", "t", " ", "S", "t", "a", "t", "i", "s", "t", "i", "c", "s">>,
                                 file |-> <<"M", "u", "l", "t", "i", "p", "l", "e">>,
                                 line |-> <<"N", "/", "A">>] >>)
    /\ q_pc' = "returned"
    /\ UNCHANGED <<engineVars, diskVars, argVars, q_type, q_meta, q_idx, q_retrieved,
                   q_blocks, q_sources, q_failed, q_observed, geLocals>>
    /\ UNCHANGED notQ

\* lines 550-554: one turn of the retrieval loop; _retrieve_from_store gives
\* [] for a store that is None and for a search that raises
Q_Retrieve ==
    /\ q_pc = "retrieve"
    /\ LET name == StoreNames[q_idx]
       IN /\ IF vector_stores[name] = "None"
             THEN /\ q_retrieved' = (name :> <<>>) @@ q_retrieved
                  /\ q_failed' = q_failed \cup {name}
                  /\ UNCHANGED q_log
             ELSE /\ q_log' = Append(q_log, "similarity_search:" \o name)
                  /\ IF store_health[name] = "search_fails" \/ ~chroma[name].exists
                     THEN /\ q_retrieved' = (name :> <<>>) @@ q_retrieved
                          /\ q_failed' = q_failed \cup {name}
                     ELSE /\ \E r \in Rankings(chroma[name].docs, TopKLocal) :
                                q_retrieved' =
                                   (name :> [i \in DOMAIN r |-> chroma[name].docs[r[i]]])
                                      @@ q_retrieved
                          /\ UNCHANGED q_failed
    /\ q_observed' = (StoreNames[q_idx] :>
                         IF vector_stores[StoreNames[q_idx]] = "None"
                         THEN [exists |-> FALSE, docs |-> <<>>]
                         ELSE chroma[StoreNames[q_idx]]) @@ q_observed
    /\ q_idx' = q_idx + 1
    /\ q_pc' = IF q_idx = Len(StoreNames) THEN "merge" ELSE "retrieve"
    /\ UNCHANGED <<engineVars, diskVars, argVars, q_type, q_meta, q_blocks, q_sources,
                   q_result, geLocals>>
    /\ UNCHANGED notQ

\* lines 557-561: fuse the lists and call _graph_expand on the result
Q_Merge ==
    /\ q_pc = "merge"
    /\ scored_docs' = merge_and_score(q_retrieved, q_question, q_type, TopKLocal)
    /\ hops' = Max(1, GraphDepth - 1)
    /\ max_add' = QueryMaxAdd
    /\ ge_pc' = "start"
    /\ q_log' = q_log \o <<"_merge_and_score", "_graph_expand">>
    /\ q_pc' = "expand"
    /\ UNCHANGED <<queue, seen_ids, added, neighbors, cur, ge_out, ge_steps, added_from>>
    /\ UNCHANGED <<engineVars, diskVars, argVars, q_type, q_meta, q_idx, q_retrieved,
                   q_blocks, q_sources, q_result, q_failed, q_observed>>
    /\ UNCHANGED notQ

\* lines 564-567: the context blocks of the expanded list; a blank context
\* returns the "No relevant code found" answer
Q_Context ==
    /\ q_pc = "expand"
    /\ ge_pc = "done"
    /\ LET r == prepare_context_blocks(ge_out, QueryMaxBlocks)
       IN /\ q_blocks' = r.blocks
          /\ q_sources' = r.sources
          /\ IF ContextIsBlank(r.blocks)
             THEN /\ q_result' = Result(q_type, Answer(NoRelevantText, <<>>), <<>>)
                  /\ q_pc' = "returned"
             ELSE /\ q_pc' = "llm"
                  /\ UNCHANGED q_result
    /\ UNCHANGED <<engineVars, diskVars, argVars, q_type, q_meta, q_idx, q_retrieved,
                   q_log, q_failed, q_observed, geLocals>>
    /\ UNCHANGED notQ

\* lines 570-585: the prompt goes to the LLM; an exception becomes the answer
Q_Answer ==
    /\ q_pc = "llm"
    /\ q_log' = Append(q_log, "llm.invoke:prompt")
    /\ \E llm_ok \in BOOLEAN :
          q_result' = Result(q_type,
                             Answer(IF llm_ok THEN LLMResponseText ELSE LLMErrorText, <<>>),
                             Take(q_sources, QueryMaxSources))
    /\ q_pc' = "returned"
    /\ UNCHANGED <<engineVars, diskVars, argVars, q_type, q_meta, q_idx, q_retrieved,
                   q_blocks, q_sources, q_failed, q_observed, geLocals>>
    /\ UNCHANGED notQ


-----------------------------------------------------------------------------
(* The projects, indexes and queries a call of query() is checked on *)

\* the CALL edges of a project of three methods, run -> parse -> load
ProjectEdges ==
    << [src |-> 1, dst |-> 2, label |-> "CALL"], [src |-> 2, dst |-> 3, label |-> "CALL"] >>

\* the enriched dictionary of a method of the version of the project that
\* has its first n methods
ProjectMethod(n, id, display_name, filename, lineNumber, full_code) ==
    LET edges == SelectSeq(ProjectEdges, LAMBDA e : e.src <= n /\ e.dst <= n)
        ctx   == graph_context(edges, 1..n, id, GraphDepth)
    IN [id |-> id, display_name |-> display_name, filename |-> filename,
        lineNumber |-> lineNumber, full_code |-> full_code,
        calls_full |-> ctx.calls, called_by_full |-> ctx.called_by]

\* enriched_methods of the version of the project that has its first n methods
ProjectMethodsOf(n) ==
    Take(<< ProjectMethod(n, 1, <<"r", "u", "n">>, <<"a", "p", "p", ".", "p", "y">>, 3,
                          <<"d", "e", "f", " ", "r", "u", "n", "(", "x", ")", ":", "\n", " ", " ", " ", " ", "r", "e", "t", "u", "r", "n", " ", "p", "a", "r", "s", "e", "(", "x", ")">>),
            ProjectMethod(n, 2, <<"p", "a", "r", "s", "e">>, <<"a", "p", "p", ".", "p", "y">>, 7,
                          <<"d", "e", "f", " ", "p", "a", "r", "s", "e", "(", "s", ")", ":", "\n", " ", " ", " ", " ", "r", "e", "t", "u", "r", "n", " ", "e", "v", "a", "l", "(", "s", ")">>),
            ProjectMethod(n, 3, <<"l", "o", "a", "d">>, <<"i", "o", ".", "p", "y">>, 1,
                          <<"d", "e", "f", " ", "l", "o", "a", "d", "(", "p", ")", ":", "\n", " ", " ", " ", " ", "r", "e", "t", "u", "r", "n", " ", "o", "p", "e", "n", "(", "p", ")">>) >>, n)

ProjectMethods == ProjectMethodsOf(3)

\* the documents create_vectorstores makes of enriched methods, the page
\* content of every view cut down to the code of the method
DocsOf(methods) ==
    [i \in 1..Len(methods) |->
        [method_id |-> methods[i].id,
         display_name |-> methods[i].display_name,
         filename |-> methods[i].filename,
         line_number |-> methods[i].lineNumber,
         page_content |-> methods[i].full_code]]

ProjectDocs == DocsOf(ProjectMethods)

StoreSet == {StoreNames[i] : i \in 1..Len(StoreNames)}

\* the index of the project, the index of a project without methods, no index
IndexOfProject ==
    [enriched_json |-> [exists |-> TRUE, valid |-> TRUE, methods |-> ProjectMethods],
     chroma |-> [n \in StoreSet |-> [exists |-> TRUE, docs |-> ProjectDocs]]]
IndexOfNothing ==
    [enriched_json |-> [exists |-> TRUE, valid |-> TRUE, methods |-> <<>>],
     chroma |-> [n \in StoreSet |-> [exists |-> TRUE, docs |-> <<>>]]]
NoIndex ==
    [enriched_json |-> [exists |-> FALSE, valid |-> FALSE, methods |-> <<>>],
     chroma |-> [n \in StoreSet |-> [exists |-> FALSE, docs |-> <<>>]]]

\* the states of the vector store provider
AllStores(health) == [n \in StoreSet |-> health]
StoreHealths ==
    {AllStores("ok"), AllStores("unloadable"), AllStores("search_fails"),
     [AllStores("ok") EXCEPT !["fault"] = "unloadable", !["hybrid"] = "search_fails"]}

\* the questions asked
Questions ==
    {<<"h", "i">>,
     <<"f", "i", "n", "d", " ", "<", "r", "u", "n", ">">>,
     <<"f", "i", "n", "d", " ", "'", " ", "'">>,
     <<"f", "i", "n", "d", " ", "\"", "z", "z", "z", "\"">>,
     <<"s", "h", "o", "w", " ", "'", " ", "P", "a", "r", "s", "e", " ", "'">>,
     <<"o", "v", "e", "r", "v", "i", "e", "w", " ", "o", "f", " ", "t", "h", "i", "s", " ", "p", "r", "o", "j", "e", "c", "t">>,
     <<"w", "h", "o", " ", "c", "a", "l", "l", "s", " ", "r", "u", "n">>,
     <<"S", "Q", "L", " ", "i", "n", "j", "e", "c", "t", "i", "o", "n", " ", "i", "n", " ", "p", "a", "r", "s", "e">>,
     <<"h", "o", "w", " ", "d", "o", "e", "s", " ", "l", "o", "a", "d", " ", "w", "o", "r", "k">>}

\* the pairs (top_k argument, TOP_K_RESULTS of the configuration)
TopKChoices == {<<1, 1>>, <<15, 0>>}

InitQuery ==
    /\ \E ix \in {IndexOfProject, IndexOfNothing, NoIndex} :
          /\ enriched_json = ix.enriched_json
          /\ chroma = ix.chroma
    /\ store_health \in StoreHealths
    /\ initialized = FALSE
    /\ vector_stores = AllStores("None")
    /\ enriched_methods = <<>>
    /\ enriched = <<>>
    /\ methods_by_file = <<>> /\ all_method_names = <<>>
    /\ \E ks \in TopKChoices : q_top_k = ks[1] /\ config_top_k = ks[2]
    /\ q_question \in Questions
    /\ q_type = "auto"
    /\ q_meta = <<>> /\ q_idx = 0 /\ q_retrieved = <<>> /\ q_blocks = <<>>
    /\ q_sources = <<>> /\ q_result = NoResult /\ q_log = <<>> /\ q_failed = {}
    /\ q_observed = <<>> /\ q_pc = "call"
    /\ scored_docs = <<>> /\ hops = 0 /\ max_add = 0
    /\ queue = <<>> /\ seen_ids = {} /\ added = <<>> /\ neighbors = <<>>
    /\ cur = <<0, 0, 0>> /\ ge_out = <<>> /\ ge_pc = "idle" /\ ge_steps = 0 /\ added_from = <<>>
    /\ IdleBut("query")

NextQuery ==
    \/ Q_Initialize \/ Q_Preprocess \/ Q_Literal \/ Q_Detect \/ Q_HandleOverview
    \/ Q_Retrieve \/ Q_Merge \/ GE_Seed \/ GE_Pop \/ GE_Neighbor \/ GE_Merge
    \/ Q_Context \/ Q_Answer

SpecQuery == InitQuery /\ [][NextQuery]_vars

-----------------------------------------------------------------------------
(* query() on the index of a project whose first method calls every other   *)
(* method                                                                   *)

CatalogSize == 13

\* the CALL edges of the project: method 1 calls methods 2, 3, ...
CatalogEdges ==
    [i \in 1..(CatalogSize - 1) |-> [src |-> 1, dst |-> i + 1, label |-> "CALL"]]

\* enriched_methods of the project: method i is m<i>, at line i of lib.py;
\* the code of method 1 is longer than MAX_CODE_LENGTH
CatalogMethods ==
    [i \in 1..CatalogSize |->
        LET ctx == graph_context(CatalogEdges, 1..CatalogSize, i, GraphDepth)
        IN [id |-> i, display_name |-> <<"m">> \o IntToStr(i),
            filename |-> <<"l", "i", "b", ".", "p", "y">>, lineNumber |-> i,
            full_code |-> <<"d", "e", "f", " ", "m">> \o IntToStr(i) \o <<"(", ")", ":", " ">>
                            \o (IF i = 1
                                THEN <<"r", "e", "t", "u", "r", "n", " ", "[", "m", "2", "(", ")", ",", " ", "m", "3", "(", ")", "]">>
                                ELSE <<"p", "a", "s", "s">>),
            calls_full |-> ctx.calls, called_by_full |-> ctx.called_by]]

IndexOfCatalog ==
    [enriched_json |-> [exists |-> TRUE, valid |-> TRUE, methods |-> CatalogMethods],
     chroma |-> [n \in StoreSet |-> [exists |-> TRUE, docs |-> DocsOf(CatalogMethods)]]]

CatalogQuestions ==
    {<<"h", "o", "w", " ", "d", "o", "e", "s", " ", "m", "1", " ", "w", "o", "r", "k">>,
     <<"f", "i", "n", "d", " ", "<", "m", "1", ">">>,
     <<"o", "v", "e", "r", "v", "i", "e", "w", " ", "o", "f", " ", "t", "h", "i", "s", " ", "p", "r", "o", "j", "e", "c", "t">>}

InitCatalog ==
    /\ enriched_json = IndexOfCatalog.enriched_json
    /\ chroma = IndexOfCatalog.chroma
    /\ store_health \in
          {AllStores("unloadable"),
           [AllStores("ok") EXCEPT !["fault"] = "unloadable", !["hybrid"] = "search_fails"]}
    /\ initialized = FALSE
    /\ vector_stores = AllStores("None")
    /\ enriched_methods = <<>>
    /\ enriched = <<>>
    /\ methods_by_file = <<>> /\ all_method_names = <<>>
    /\ q_top_k = 1 /\ config_top_k = 1
    /\ q_question \in CatalogQuestions
    /\ q_type = "auto"
    /\ q_meta = <<>> /\ q_idx = 0 /\ q_retrieved = <<>> /\ q_blocks = <<>>
    /\ q_sources = <<>> /\ q_result = NoResult /\ q_log = <<>> /\ q_failed = {}
    /\ q_observed = <<>> /\ q_pc = "call"
    /\ scored_docs = <<>> /\ hops = 0 /\ max_add = 0
    /\ queue = <<>> /\ seen_ids = {} /\ added = <<>> /\ neighbors = <<>>
    /\ cur = <<0, 0, 0>> /\ ge_out = <<>> /\ ge_pc = "idle" /\ ge_steps = 0 /\ added_from = <<>>
    /\ IdleBut("query")

SpecCatalog == InitCatalog /\ [][NextQuery]_vars

-----------------------------------------------------------------------------
(* RAGSetup.run: an indexing pass over a new version of the project, while  *)
(* a query engine of another process answers a query on the same DATA_DIR   *)
(* and CHROMA_DIR                                                           *)

\* the versions of the project: the index on disk was built from the old
\* one, the pass indexes the new one
OldMethods == ProjectMethodsOf(1)
NewMethods == ProjectMethodsOf(2)

\* lines 578-582: load_cpg, load_sources, build_graph_index, enrich_methods
\* and init_embeddings leave the enriched methods of the new version
IX_Enrich ==
    /\ ix_pc = "start"
    /\ ix_enriched' = NewMethods
    /\ ix_pc' = "create"
    /\ UNCHANGED <<ix_force, ix_idx, diskVars>>
    /\ UNCHANGED notIx

\* lines 500-503: create_vectorstores removes the directory of the
\* collections when force is set, and makes the directory
IX_RemoveTree ==
    /\ ix_pc = "create"
    /\ chroma' = IF ix_force /\ \E n \in DOMAIN chroma : chroma[n].exists
                 THEN [n \in DOMAIN chroma |-> [exists |-> FALSE, docs |-> <<>>]]
                 ELSE chroma
    /\ ix_idx' = 1
    /\ ix_pc' = "from_documents"
    /\ UNCHANGED <<ix_force, ix_enriched, enriched_json, store_health>>
    /\ UNCHANGED notIx

\* lines 526-557: one Chroma.from_documents; it adds the documents to the
\* collection of that name, which it creates when there is none
IX_FromDocuments ==
    /\ ix_pc = "from_documents"
    /\ chroma' = [chroma EXCEPT ![StoreNames[ix_idx]] =
                     [exists |-> TRUE,
                      docs |-> (IF @.exists THEN @.docs ELSE <<>>) \o DocsOf(ix_enriched)]]
    /\ ix_idx' = ix_idx + 1
    /\ ix_pc' = IF ix_idx = Len(StoreNames) THEN "save" ELSE "from_documents"
    /\ UNCHANGED <<ix_force, ix_enriched, enriched_json, store_health>>
    /\ UNCHANGED notIx

\* line 565: open(out, "w") leaves an empty file, which json.load rejects
IX_SaveOpen ==
    /\ ix_pc = "save"
    /\ enriched_json' = [exists |-> TRUE, valid |-> FALSE, methods |-> <<>>]
    /\ ix_pc' = "dump"
    /\ UNCHANGED <<ix_force, ix_enriched, ix_idx, chroma, store_health>>
    /\ UNCHANGED notIx

\* line 565: json.dump has written the enriched methods
IX_SaveDump ==
    /\ ix_pc = "dump"
    /\ enriched_json' = [exists |-> TRUE, valid |-> TRUE, methods |-> ix_enriched]
    /\ ix_pc' = "done"
    /\ UNCHANGED <<ix_force, ix_enriched, ix_idx, chroma, store_health>>
    /\ UNCHANGED notIx

\* the questions asked while the pass runs
RebuildQuestions ==
    {<<"h", "o", "w", " ", "d", "o", "e", "s", " ", "r", "u", "n", " ", "w", "o", "r", "k">>,
     <<"f", "i", "n", "d", " ", "<", "r", "u", "n", ">">>,
     <<"o", "v", "e", "r", "v", "i", "e", "w", " ", "o", "f", " ", "t", "h", "i", "s", " ", "p", "r", "o", "j", "e", "c", "t">>}

InitRebuild ==
    /\ enriched_json = [exists |-> TRUE, valid |-> TRUE, methods |-> OldMethods]
    /\ chroma = [n \in StoreSet |-> [exists |-> TRUE, docs |-> DocsOf(OldMethods)]]
    /\ store_health = AllStores("ok")
    /\ ix_force \in BOOLEAN
    /\ ix_enriched = <<>> /\ ix_idx = 0 /\ ix_pc = "start"
    /\ initialized = FALSE
    /\ vector_stores = AllStores("None")
    /\ enriched_methods = <<>>
    /\ enriched = <<>>
    /\ methods_by_file = <<>> /\ all_method_names = <<>>
    /\ q_top_k = 1 /\ config_top_k = 1
    /\ q_question \in RebuildQuestions
    /\ q_type = "auto"
    /\ q_meta = <<>> /\ q_idx = 0 /\ q_retrieved = <<>> /\ q_blocks = <<>>
    /\ q_sources = <<>> /\ q_result = NoResult /\ q_log = <<>> /\ q_failed = {}
    /\ q_observed = <<>> /\ q_pc = "call"
    /\ scored_docs = <<>> /\ hops = 0 /\ max_add = 0
    /\ queue = <<>> /\ seen_ids = {} /\ added = <<>> /\ neighbors = <<>>
    /\ cur = <<0, 0, 0>> /\ ge_out = <<>> /\ ge_pc = "idle" /\ ge_steps = 0 /\ added_from = <<>>
    /\ IdleBut("rebuild")

NextRebuild ==
    \/ IX_Enrich \/ IX_RemoveTree \/ IX_FromDocuments \/ IX_SaveOpen \/ IX_SaveDump
    \/ Q_Initialize \/ Q_Preprocess \/ Q_Literal \/ Q_Detect \/ Q_HandleOverview
    \/ Q_Retrieve \/ Q_Merge \/ GE_Seed \/ GE_Pop \/ GE_Neighbor \/ GE_Merge
    \/ Q_Context \/ Q_Answer

SpecRebuild == InitRebuild /\ [][NextRebuild]_vars

-----------------------------------------------------------------------------
(* step2_extract_json.py: the method list of methods.json, and              *)
(* step3_setup_rag.py: RAGSetup.run from load_cpg to the end of             *)
(* enrich_methods.  A node is a record [id, label, isExternal, name,        *)
(* fullName, filename, lineNumber, code]; an edge is [src, dst, label].     *)

MaxSetupNodes == 3

\* None where an id or a count is expected
NoneValue == -1

\* extract_methods_from_nodes: the METHOD nodes that are not external
extract_methods_from_nodes(nodes) ==
    SelectSeq(nodes, LAMBDA n : n.label = "METHOD" /\ ~n.isExternal)

\* deduplicate_methods: methods without a filename or a name are dropped; of
\* the methods of one (filename, lineNumber, name) the first stays, replaced
\* by a later one whose code is longer
RECURSIVE deduplicate_methods(_, _)
deduplicate_methods(seen, methods) ==
    IF methods = <<>> THEN seen
    ELSE LET m    == Head(methods)
             same == {i \in 1..Len(seen) :
                        /\ seen[i].filename = m.filename
                        /\ seen[i].lineNumber = m.lineNumber
                        /\ seen[i].name = m.name}
         IN IF m.filename = <<>> \/ m.name = <<>>
            THEN deduplicate_methods(seen, Tail(methods))
            ELSE IF same = {}
            THEN deduplicate_methods(Append(seen, m), Tail(methods))
            ELSE deduplicate_methods(
                     [i \in 1..Len(seen) |->
                         IF i \in same /\ Len(m.code) > Len(seen[i].code) THEN m ELSE seen[i]],
                     Tail(methods))

\* the methods step 2 writes to methods.json for the nodes it extracted
MethodsOfStep2(nodes) == deduplicate_methods(<<>>, extract_methods_from_nodes(nodes))

\* the fallback of load_cpg: every node labelled METHOD
MethodsOfNodes(nodes) == SelectSeq(nodes, LAMBDA n : n.label = "METHOD")

\* (e.get("label") or "").upper() on the labels edges carry
UpperLabel(label) ==
    IF label = "call" THEN "CALL" ELSE IF label = "ast" THEN "AST" ELSE label

\* the edges build_graph_index puts in the adjacency lists: both endpoints
\* are not None; the label is upper-cased
IndexedEdges(edges) ==
    LET kept == SelectSeq(edges, LAMBDA e : e.src # NoneValue /\ e.dst # NoneValue)
    IN [i \in 1..Len(kept) |->
           [src |-> kept[i].src, dst |-> kept[i].dst, label |-> UpperLabel(kept[i].label)]]

\* self.id_to_node after the first loop of build_graph_index: the last node of every id
IdToNode(nodes) ==
    [id \in {nodes[i].id : i \in {j \in 1..Len(nodes) : nodes[j].id # NoneValue}} |->
        nodes[CHOOSE i \in 1..Len(nodes) :
                 /\ nodes[i].id = id
                 /\ \A j \in 1..Len(nodes) : nodes[j].id = id => j <= i]]

\* ast.walk(ast.parse(code)) for the texts of the project, of which one has
\* a syntax tree: [ok, walk], ok
\* FALSE when ast.parse raises; a walked node is [kind, name, args, in_def],
\* name the function's name or the called Name's id, in_def whether the node
\* is inside the first function definition
ast_parse(code) ==
    IF code = <<"d", "e", "f", " ", "r", "u", "n", "(", "x", ")", ":", "\n", " ", " ", " ", " ", "r", "e", "t", "u", "r", "n", " ", "o", "p", "e", "n", "(", "x", ")">>
    THEN [ok |-> TRUE,
          walk |-> << [kind |-> "Module", name |-> <<>>, args |-> 0, in_def |-> FALSE],
                      [kind |-> "FunctionDef", name |-> <<"r", "u", "n">>, args |-> 1, in_def |-> TRUE],
                      [kind |-> "arguments", name |-> <<>>, args |-> 0, in_def |-> TRUE],
                      [kind |-> "Return", name |-> <<>>, args |-> 0, in_def |-> TRUE],
                      [kind |-> "arg", name |-> <<>>, args |-> 0, in_def |-> TRUE],
                      [kind |-> "Call", name |-> <<"o", "p", "e", "n">>, args |-> 0, in_def |-> TRUE],
                      [kind |-> "Name", name |-> <<>>, args |-> 0, in_def |-> TRUE],
                      [kind |-> "Name", name |-> <<>>, args |-> 0, in_def |-> TRUE],
                      [kind |-> "Load", name |-> <<>>, args |-> 0, in_def |-> TRUE],
                      [kind |-> "Load", name |-> <<>>, args |-> 0, in_def |-> TRUE] >>]
    ELSE [ok |-> FALSE, walk |-> <<>>]

\* the features dictionary ast_features_from_code starts from
ZeroFeatures ==
    [num_calls |-> 0, num_branches |-> 0, num_loops |-> 0, num_returns |-> 0,
     num_args |-> NoneValue, uses_recursion |-> FALSE, num_awaits |-> 0, uses_io |-> FALSE]

\* the names that make a call an I/O call
io_names == {<<"o", "p", "e", "n">>, <<"r", "e", "a", "d">>, <<"w", "r", "i", "t", "e">>,
             <<"s", "e", "n", "d">>, <<"r", "e", "c", "v">>}

\* ast_features_from_code(code)
ast_features_from_code(code) ==
    LET tree  == ast_parse(code)
        walk  == tree.walk
        count(kinds) == Cardinality({i \in 1..Len(walk) : walk[i].kind \in kinds})
        defs  == {i \in 1..Len(walk) : walk[i].kind \in {"FunctionDef", "AsyncFunctionDef"}}
    IN IF code = <<>> THEN ZeroFeatures
       ELSE IF ~tree.ok THEN ZeroFeatures
       ELSE [num_calls |-> count({"Call"}),
             num_branches |-> count({"If"}),
             num_loops |-> count({"For", "While"}),
             num_returns |-> count({"Return"}),
             num_args |-> IF defs = {} THEN 0 ELSE walk[Leftmost(defs)].args,
             uses_recursion |->
                 \E d \in defs, i \in 1..Len(walk) :
                     /\ walk[d].name # <<>>
                     /\ walk[i].kind = "Call" /\ walk[i].in_def
                     /\ walk[i].name = walk[d].name,
             num_awaits |-> count({"Await"}),
             uses_io |-> \E i \in 1..Len(walk) :
                            walk[i].kind = "Call" /\ walk[i].name \in io_names]

\* an iteration of enrich_methods that leaves out a method whose code does not parse
EnrichOne_SkipUnparsed(m, sources, edges, ids) ==
    LET code == extract_full_code(sources, m)
        ctx  == graph_context(edges, ids, m.id, GraphDepth)
    IN IF code # <<>> /\ ~ast_parse(code).ok THEN <<>>
       ELSE << [id |-> m.id,
                display_name |-> make_display_name(m.name, m.fullName, code, m.id),
                filename |-> m.filename, lineNumber |-> m.lineNumber, full_code |-> code,
                calls_full |-> ctx.calls, called_by_full |-> ctx.called_by,
                ast_features |-> ast_features_from_code(code)] >>

\* what one iteration of the loop of enrich_methods appends to out
EnrichOne(m, sources, edges, ids) ==
    LET code == extract_full_code(sources, m)
        ctx  == graph_context(edges, ids, m.id, GraphDepth)
    IN << [id |-> m.id,
            display_name |-> make_display_name(m.name, m.fullName, code, m.id),
            filename |-> m.filename, lineNumber |-> m.lineNumber, full_code |-> code,
            calls_full |-> ctx.calls, called_by_full |-> ctx.called_by,
            ast_features |-> ast_features_from_code(code)] >>

\* load_cpg: a file that is missing leaves the list empty, a file that does
\* not load empties it; without a loaded methods.json the methods are the
\* nodes labelled METHOD
SU_LoadCpg ==
    /\ su_pc = "load_cpg"
    /\ su_nodes' = IF nodes_json.exists /\ nodes_json.valid THEN nodes_json.nodes ELSE <<>>
    /\ su_edges' = IF edges_json.exists /\ edges_json.valid THEN edges_json.edges ELSE <<>>
    /\ su_methods' = IF methods_json.exists /\ methods_json.valid
                     THEN methods_json.methods
                     ELSE MethodsOfNodes(su_nodes')
    /\ su_pc' = "load_sources"
    /\ UNCHANGED <<nodes_json, edges_json, methods_json, su_dir, su_sources, id_to_node,
                   outgoing, incoming, su_out, su_i, su_enriched>>
    /\ UNCHANGED notSu

\* load_sources(source_dir)
SU_LoadSources ==
    /\ su_pc = "load_sources"
    /\ su_sources' = load_sources(<<>>, su_dir)
    /\ su_pc' = "build_graph_index"
    /\ UNCHANGED <<nodes_json, edges_json, methods_json, su_dir, su_nodes, su_edges,
                   su_methods, id_to_node, outgoing, incoming, su_out, su_i, su_enriched>>
    /\ UNCHANGED notSu

\* build_graph_index
SU_BuildGraphIndex ==
    /\ su_pc = "build_graph_index"
    /\ id_to_node' = IdToNode(su_nodes)
    /\ outgoing' = [n \in {e.src : e \in Range(IndexedEdges(su_edges))} |->
                       Outgoing(IndexedEdges(su_edges), n)]
    /\ incoming' = [n \in {e.dst : e \in Range(IndexedEdges(su_edges))} |->
                       Incoming(IndexedEdges(su_edges), n)]
    /\ su_pc' = "enrich"
    /\ UNCHANGED <<nodes_json, edges_json, methods_json, su_dir, su_nodes, su_edges,
                   su_methods, su_sources, su_out, su_i, su_enriched>>
    /\ UNCHANGED notSu

\* one iteration of the loop of enrich_methods
SU_EnrichMethod ==
    /\ su_pc = "enrich"
    /\ su_i < Len(su_methods)
    /\ su_i' = su_i + 1
    /\ su_out' = su_out \o EnrichOne(su_methods[su_i + 1], su_sources,
                                     IndexedEdges(su_edges), DOMAIN id_to_node)
    /\ UNCHANGED <<nodes_json, edges_json, methods_json, su_dir, su_nodes, su_edges,
                   su_methods, su_sources, id_to_node, outgoing, incoming, su_enriched,
                   su_pc>>
    /\ UNCHANGED notSu

\* the end of enrich_methods: self.enriched_methods = out
SU_EnrichEnd ==
    /\ su_pc = "enrich"
    /\ su_i >= Len(su_methods)
    /\ su_enriched' = su_out
    /\ su_pc' = "enriched"
    /\ UNCHANGED <<nodes_json, edges_json, methods_json, su_dir, su_nodes, su_edges,
                   su_methods, su_sources, id_to_node, outgoing, incoming, su_out, su_i>>
    /\ UNCHANGED notSu

\* the nodes the extractor can give
NodeRun ==
    [id |-> 1, label |-> "METHOD", isExternal |-> FALSE, name |-> <<"r", "u", "n">>,
     fullName |-> <<"a", "p", "p", ".", "p", "y", ":", "<", "m", "o", "d", "u", "l", "e", ">", ".", "r", "u", "n">>, filename |-> <<"a", "p", "p", ".", "p", "y">>, lineNumber |-> 1,
     code |-> <<"d", "e", "f", " ", "r", "u", "n", "(", "x", ")", ":">>]
NodeBad ==
    [id |-> 2, label |-> "METHOD", isExternal |-> FALSE, name |-> <<"<", "l", "a", "m", "b", "d", "a", ">">>,
     fullName |-> <<>>, filename |-> <<"a", "p", "p", ".", "p", "y">>, lineNumber |-> 3,
     code |-> <<"d", "e", "f", " ", "b", "a", "d", "(", ":">>]
NodeExternal ==
    [id |-> 3, label |-> "METHOD", isExternal |-> TRUE, name |-> <<>>,
     fullName |-> <<>>, filename |-> <<"<", "e", "m", "p", "t", "y", ">">>, lineNumber |-> 0,
     code |-> <<>>]
NodeCall ==
    [id |-> 4, label |-> "CALL", isExternal |-> FALSE, name |-> <<"o", "p", "e", "n">>,
     fullName |-> <<"o", "p", "e", "n">>, filename |-> <<"a", "p", "p", ".", "p", "y">>, lineNumber |-> 2,
     code |-> <<"o", "p", "e", "n", "(", "x", ")">>]
NodePool == {NodeRun, NodeBad, NodeExternal, NodeCall}

\* cpg_nodes.json: up to MaxSetupNodes nodes of the pool, in any order
RECURSIVE NodeLists(_)
NodeLists(n) ==
    IF n = 0 THEN {<<>>}
    ELSE NodeLists(n - 1) \cup
         {Append(l, x) : l \in {k \in NodeLists(n - 1) : Len(k) = n - 1},
                         x \in {y \in NodePool : TRUE}}

\* the edges the extractor can give: a call of a method by another, a call
\* written in lower case, a call of an id that is no node, a call from an id
\* that is no node, and an edge without a destination
EdgePool ==
    << [src |-> 1, dst |-> 2, label |-> "CALL"], [src |-> 2, dst |-> 3, label |-> "call"],
       [src |-> 1, dst |-> 9, label |-> "CALL"], [src |-> 9, dst |-> 2, label |-> "CALL"],
       [src |-> 3, dst |-> NoneValue, label |-> "CALL"] >>

EdgeLists ==
    {SelectSeq(EdgePool, LAMBDA e : \E i \in keep : EdgePool[i] = e) :
        keep \in {{}, {1}, {1, 2}, {3}, {3, 4}, {1, 3, 5}, {2, 4, 5}, 1..Len(EdgePool)}}

\* source_dir: empty, or holding app.py
SetupDirs ==
    {<<>>, << <<<<"a", "p", "p", ".", "p", "y">>, <<"d", "e", "f", " ", "r", "u", "n", "(", "x", ")", ":", "\n", " ", " ", " ", " ", "r", "e", "t", "u", "r", "n", " ", "o", "p", "e", "n", "(", "x", ")", "\n", "d", "e", "f", " ", "b", "a", "d", "(", ":", "\n">>>> >>}

InitSetup ==
    /\ \E nodes \in NodeLists(MaxSetupNodes) :
          /\ nodes_json = [exists |-> TRUE, valid |-> TRUE, nodes |-> nodes]
          /\ methods_json \in
                {[exists |-> TRUE, valid |-> TRUE, methods |-> MethodsOfStep2(nodes)],
                 [exists |-> TRUE, valid |-> FALSE, methods |-> <<>>],
                 [exists |-> FALSE, valid |-> FALSE, methods |-> <<>>]}
    /\ \E edges \in EdgeLists :
          edges_json = [exists |-> TRUE, valid |-> TRUE, edges |-> edges]
    /\ su_dir \in SetupDirs
    /\ su_nodes = <<>> /\ su_edges = <<>> /\ su_methods = <<>> /\ su_sources = <<>>
    /\ id_to_node = <<>> /\ outgoing = <<>> /\ incoming = <<>>
    /\ su_out = <<>> /\ su_i = 0 /\ su_enriched = <<>>
    /\ su_pc = "load_cpg"
    /\ IdleBut("setup")

NextSetup ==
    SU_LoadCpg \/ SU_LoadSources \/ SU_BuildGraphIndex \/ SU_EnrichMethod \/ SU_EnrichEnd

SpecSetup == InitSetup /\ [][NextSetup]_vars

-----------------------------------------------------------------------------
(* Properties of _graph_expand *)

\* some method of the index reaches itself through its stored calls (a self
\* call or a call cycle within the enrichment depth)
HasCallCycle == \E m \in DOMAIN enriched : m \in Range(enriched[m].calls_full)

\* C1: at every point of a run of _graph_expand the number of documents in
\* `added` is at most max_add.
C1_AddedNeverExceedsMaxAdd == Len(added) <= max_add

\* C1 witness: the cap was reached while the queue still held entries of a
\* cyclic index.
C1_Witness ==
    /\ ge_pc = "done" /\ max_add > 0 /\ Len(added) = max_add
    /\ queue # <<>> /\ HasCallCycle

\* the ids that can ever be listed as a neighbor
NeighborIds ==
    UNION {Range(enriched[m].calls_full) \cup Range(enriched[m].called_by_full) :
              m \in DOMAIN enriched}

\* a measure of the work _graph_expand has left: it counts the entries of
\* neighbors and queue and the ids not yet in seen_ids, and it does not look
\* at hops or at the depth of an entry
ExpandVariant ==
    CASE ge_pc = "done"  -> 0
      [] ge_pc = "start" -> 2 + Len(scored_docs) + 4 * Cardinality(NeighborIds)
      [] ge_pc = "loop" /\ Len(added) >= max_add -> 1
      [] OTHER -> 1 + 2 * Len(neighbors) + Len(queue)
                    + 4 * Cardinality(NeighborIds \ (seen_ids \cup Range(neighbors)))

\* C2: _graph_expand terminates on every index (cycles and self references
\* included), for every hops and max_add: until it returns a step is always
\* possible, and the steps taken plus a natural-number measure of the ids
\* not yet visited never exceed a bound fixed by the documents and the index
\* alone, whatever hops is.
C2_Terminates ==
    /\ ge_pc # "done" =>
          \/ ENABLED GE_Seed \/ ENABLED GE_Pop \/ ENABLED GE_Neighbor
          \/ (ge_pc = "loop" /\ ~WhileTest)
    /\ ExpandVariant \in Nat
    /\ ge_steps + ExpandVariant <= 2 + Len(scored_docs) + 4 * Cardinality(NeighborIds)

\* C2 witness: a run over a cyclic index with hops above the number of
\* methods returned after adding documents, no queue entry having reached
\* depth hops.
C2_Witness ==
    /\ ge_pc = "done" /\ HasCallCycle /\ hops > MaxId
    /\ added # <<>> /\ queue = <<>> /\ cur[3] < hops

-----------------------------------------------------------------------------
(* Properties of the automatic classification *)

QueryTypes == {"overview", "fault", "structural", "semantic"}

\* the type the vocabularies give a list of the words of ClassifyWords:
\* "overview" is an overview word; "injection" holds a fault keyword and so
\* does "traces" ("race"), which also holds the structural keyword "trace";
\* "calls" is a structural keyword; the other words hold no keyword
ExpectedType(words) ==
    LET has(w) == \E i \in 1..Len(words) : words[i] = w
    IN IF has(<<"o", "v", "e", "r", "v", "i", "e", "w">>) THEN "overview"
       ELSE IF has(<<"i", "n", "j", "e", "c", "t", "i", "o", "n">>) \/ has(<<"t", "r", "a", "c", "e", "s">>) THEN "fault"
       ELSE IF has(<<"c", "a", "l", "l", "s">>) THEN "structural"
       ELSE "semantic"

\* C4: automatic classification gives every query exactly one of the four
\* types, by priority overview > fault > structural > semantic; "SQL
\* injection" is fault, "who calls X" structural, "overview of this project"
\* overview, and a query without vocabulary semantic.
C4_ClassificationByPriority ==
    /\ cl_pc = "done" =>
          /\ cl_type \in QueryTypes
          /\ cl_type = ExpectedType(cl_words)
          /\ cl_words = << <<"S", "Q", "L">>, <<"i", "n", "j", "e", "c", "t", "i", "o", "n">> >> => cl_type = "fault"
          /\ cl_words = << <<"w", "h", "o">>, <<"c", "a", "l", "l", "s">>, <<"X">> >> => cl_type = "structural"
          /\ cl_words = << <<"o", "v", "e", "r", "v", "i", "e", "w">>, <<"o", "f", " ", "t", "h", "i", "s">>, <<"p", "r", "o", "j", "e", "c", "t">> >> => cl_type = "overview"
          /\ cl_words = << <<"o", "f", " ", "t", "h", "i", "s">>, <<"X">> >> => cl_type = "semantic"

\* C4 witness: a query with both a structural and a fault keyword and no
\* overview word was classified.
C4_Witness ==
    /\ cl_pc = "done" /\ cl_type = "fault"
    /\ cl_words = << <<"w", "h", "o">>, <<"c", "a", "l", "l", "s">>, <<"i", "n", "j", "e", "c", "t", "i", "o", "n">> >>

\* C5: make_display_name("<init>", "pkg.mod.<init>", "def real_name(self):", id)
\* returns "real_name": not "<init>" and not a token got from splitting "<init>".
C5_Counterexample ==
    (/\ dn_pc = "done"
     /\ dn_raw = <<"<", "i", "n", "i", "t", ">">>
     /\ dn_full = <<"p", "k", "g", ".", "m", "o", "d", ".", "<", "i", "n", "i", "t", ">">>
     /\ dn_code = <<"d", "e", "f", " ", "r", "e", "a", "l", "_", "n", "a", "m", "e", "(", "s", "e", "l", "f", ")", ":">>)
    => dn_result = <<"r", "e", "a", "l", "_", "n", "a", "m", "e">>

\* a loaded source file is located for filename: the filename is not empty and
\* is a key, has a key as its basename, or is a suffix match of a key either way
FileLocated(d, filename) ==
    /\ filename # <<>>
    /\ \E i \in 1..Len(d) :
          \/ d[i][1] = filename
          \/ d[i][1] = PathName(filename)
          \/ EndsWith(filename, d[i][1])
          \/ EndsWith(d[i][1], filename)

\* C6: when no loaded source file can be located for the method (its filename
\* is absent or empty, or matches no loaded file), extract_full_code returns the
\* method's own code, never the text of a source file.
C6_Counterexample ==
    (fc_pc = "done" /\ ~FileLocated(source_files, fc_method.filename))
    => fc_result = fc_method.code

-----------------------------------------------------------------------------
(* Properties of query() *)

\* query() has gone through the whole retrieval loop
RetrievalDone == q_pc \in {"merge", "expand", "llm", "returned"} /\ q_idx > Len(StoreNames)

\* every view gave zero candidates
AllViewsEmpty == RetrievalDone /\ \A n \in StoreSet : q_retrieved[n] = <<>>

\* the calls query() makes beyond initialize's smoke test
WorkCalls == {q_log[i] : i \in 1..Len(q_log)} \ {"llm.invoke:Ready?"}

\* C3: a query that holds a quoted substring or an <angle token> is answered
\* by the literal lookup alone: the result is the literal one, every source
\* is an enriched method whose display name contains the literal, case
\* ignored, and the query made no vector-store lookup, fusion, graph
\* expansion or LLM call.
C3_Counterexample ==
    (q_pc = "returned" /\ LiteralOf(q_question) # <<>>) =>
        /\ q_result.query_type = "literal"
        /\ \A i \in 1..Len(q_result.sources) :
              /\ \E j \in 1..Len(enriched_methods) :
                    enriched_methods[j].display_name = q_result.sources[i].function
              /\ Contains(Lower(q_result.sources[i].function), Lower(LiteralOf(q_question)))
        /\ WorkCalls = {}

\* C7: when a vector-store lookup of a query failed (the store could not be
\* loaded or the search raised), the failed lookup is not turned into an
\* empty candidate list and the query does not end in the empty-result answer.
C7_Counterexample ==
    (q_pc = "returned" /\ q_failed # {}) =>
        /\ \A n \in q_failed : q_retrieved[n] # <<>>
        /\ q_result.answer.text # NoRelevantText

\* no index artifacts: enriched_methods.json is missing or no collection
\* could be opened
NoIndexArtifacts ==
    \/ ~enriched_json.exists
    \/ \A n \in StoreSet : vector_stores[n] = "None"

\* C8: without index artifacts no query ends in an outcome that a query on an
\* existing index that matches nothing has: the "No relevant code found" answer
\* and the "No method matching" answer.
C8_Counterexample ==
    (q_pc = "returned" /\ NoIndexArtifacts) =>
        q_result.answer.text \notin {NoRelevantText, NoMatchText}

\* C9: when every view gave zero candidates, query() returns the "No
\* relevant code found" answer with no sources, and never sends a prompt to
\* the LLM.
C9_NoCandidatesNoLLM ==
    AllViewsEmpty =>
        /\ q_pc # "llm"
        /\ "llm.invoke:prompt" \notin WorkCalls
        /\ q_pc = "returned" => q_result = Result(q_type, Answer(NoRelevantText, <<>>), <<>>)

\* C9 witness: a classified query on the index of a project without methods
\* got nothing from four healthy stores and has returned.
C9_Witness ==
    /\ q_pc = "returned" /\ AllViewsEmpty /\ q_failed = {}
    /\ q_type \in {"fault", "structural", "semantic"}
    /\ \A n \in StoreSet : "similarity_search:" \o n \in WorkCalls
    /\ ge_pc = "done" /\ ge_out = <<>>

-----------------------------------------------------------------------------
(* Properties of a query that runs during an indexing pass *)

\* the query saw the enriched list and, when it searched, the four
\* collections of one complete version of the index
SawVersion(methods) ==
    /\ enriched_methods = methods
    /\ RetrievalDone =>
          \A n \in StoreSet : q_observed[n] = [exists |-> TRUE, docs |-> DocsOf(methods)]

\* C10: a query that runs while an indexing pass rebuilds the index sees the
\* complete old index (vector stores and enriched methods) or the complete
\* new one, never a mixture, a deleted store or a part of the collections.
C10_Counterexample ==
    q_pc = "returned" => SawVersion(OldMethods) \/ SawVersion(NewMethods)

-----------------------------------------------------------------------------
(* Properties of the order of the fused, expanded and assembled output *)

\* the documents of the four views, in the order query() put them in retrieved
AllRetrieved ==
    q_retrieved["semantic"] \o q_retrieved["structural"]
        \o q_retrieved["fault"] \o q_retrieved["hybrid"]

\* the secondary key of a fused candidate: the position at which its key is
\* first seen in the views
FirstSeen(key) ==
    CHOOSE i \in 1..Len(AllRetrieved) :
        /\ DocKey(AllRetrieved[i].filename, AllRetrieved[i].line_number,
                  AllRetrieved[i].display_name) = key
        /\ \A j \in 1..(i - 1) :
              DocKey(AllRetrieved[j].filename, AllRetrieved[j].line_number,
                     AllRetrieved[j].display_name) # key

\* the secondary key of an expanded document: its first position in the
\* list of the fused documents followed by the added ones
FirstInCombined(d) ==
    CHOOSE i \in 1..Len(scored_docs \o added) :
        /\ (scored_docs \o added)[i] = d
        /\ \A j \in 1..(i - 1) : (scored_docs \o added)[j] # d

\* two neighbouring documents of the fused list have the same score
FusedTie ==
    \E i \in 1..(Len(scored_docs) - 1) : scored_docs[i].score = scored_docs[i + 1].score

\* C11: the fused list, the expanded list and the blocks are ordered by
\* inputs alone: the fused list by descending score and, for equal scores,
\* by the position at which the candidate is first seen in the views; the
\* expanded list by descending score and, for equal scores, by the position
\* in the fused list followed by the added documents; the blocks follow the
\* expanded list. No two runs on the same views, query and type can differ.
C11_OrderFixedByInput ==
    /\ (RetrievalDone /\ q_pc # "merge") =>
          \A i, j \in 1..Len(scored_docs) : i < j =>
              \/ scored_docs[i].score > scored_docs[j].score
              \/ /\ scored_docs[i].score = scored_docs[j].score
                 /\ FirstSeen(scored_docs[i].key) < FirstSeen(scored_docs[j].key)
    /\ (RetrievalDone /\ ge_pc = "done") =>
          \A i, j \in 1..Len(ge_out) : i < j =>
              \/ ge_out[i].score > ge_out[j].score
              \/ /\ ge_out[i].score = ge_out[j].score
                 /\ FirstInCombined(ge_out[i]) < FirstInCombined(ge_out[j])
    /\ (RetrievalDone /\ q_pc \in {"llm", "returned"}) =>
          /\ Len(q_blocks) = Min(Len(ge_out), QueryMaxBlocks)
          /\ \A i \in 1..Len(q_blocks) :
                /\ q_blocks[i].n = i
                /\ q_blocks[i].name = ge_out[i].name
                /\ q_blocks[i].content = TrimContent(ge_out[i].content)

\* C11 witness: a query returned whose fused list held two candidates of
\* equal score and whose expansion added a document.
C11_Witness ==
    /\ q_pc = "returned" /\ RetrievalDone /\ ge_pc = "done"
    /\ FusedTie
    /\ added # <<>>
    /\ Len(q_blocks) >= 2

-----------------------------------------------------------------------------
(* Properties of the scores of the documents graph expansion adds *)

\* C12: a document added from a popped parent of score s and depth d has
\* the score s * 0.6^(d+1), and of two documents added from parents of the
\* same non-negative score the one whose parent is less deep has a score
\* that is not lower.
C12_DecayByDepth ==
    /\ Len(added_from) = Len(added)
    /\ \A i \in 1..Len(added) :
          added[i].score * Pow(5, added_from[i][2] + 1)
              = added_from[i][1] * Pow(3, added_from[i][2] + 1)
    /\ \A i, j \in 1..Len(added) :
          (/\ added_from[i][1] = added_from[j][1]
           /\ added_from[i][1] >= 0
           /\ added_from[i][2] < added_from[j][2]) => added[i].score >= added[j].score

\* C12 witness: the expansion returned after it added two documents from
\* parents of the same score, one at depth 0 and one deeper.
C12_Witness ==
    /\ ge_pc = "done"
    /\ \E i, j \in 1..Len(added) :
          /\ added_from[i][1] = added_from[j][1]
          /\ added_from[i][2] = 0
          /\ added_from[j][2] > 0
          /\ added[i].score > added[j].score
-----------------------------------------------------------------------------
(* Properties of the sources query() returns *)

\* C13: the sources of a query answered through retrieval are parallel to
\* the context blocks: one entry per block, the i-th naming the function,
\* file and line of the i-th block.
C13_Counterexample ==
    (q_pc = "returned" /\ RetrievalDone) =>
        /\ Len(q_result.sources) = Len(q_blocks)
        /\ \A i \in 1..Len(q_blocks) :
              /\ q_result.sources[i].function = q_blocks[i].name
              /\ q_result.sources[i].file = q_blocks[i].file
              /\ q_result.sources[i].line = q_blocks[i].line

-----------------------------------------------------------------------------
(* Properties of the setup pass *)

\* the setup pass has finished enrich_methods
Enriched == su_pc = "enriched"

\* C14: no enriched method is an external node, whether the methods came
\* from methods.json or from the METHOD nodes of cpg_nodes.json.
C14_Counterexample ==
    Enriched =>
        \A i \in 1..Len(su_enriched), j \in 1..Len(su_nodes) :
            su_nodes[j].id = su_enriched[i].id => ~su_nodes[j].isExternal


\* the graph index has been built
GraphIndexBuilt == su_pc \in {"enrich", "enriched"}

\* C15: after build_graph_index every destination id in an outgoing list
\* and every source id in an incoming list is an id of id_to_node: an edge
\* with an endpoint that is no node is in neither list.
C15_Counterexample ==
    GraphIndexBuilt =>
        /\ \A n \in DOMAIN outgoing : \A i \in 1..Len(outgoing[n]) :
              outgoing[n][i][1] \in DOMAIN id_to_node
        /\ \A n \in DOMAIN incoming : \A i \in 1..Len(incoming[n]) :
              incoming[n][i][1] \in DOMAIN id_to_node

-----------------------------------------------------------------------------
(* Properties of make_display_name *)

\* neither the raw name, nor a token of the qualified name, nor the name read
\* from the code is a name that is not synthetic
NoNameSource ==
    /\ is_synthetic(dn_raw)
    /\ LastGoodToken(dn_full, Len(dn_full)) = <<>>
    /\ is_synthetic(extract_name_from_code(dn_code))

\* C16: make_display_name returns a name that is not empty and not
\* synthetic, the same for the same arguments, and it is method_<id> when
\* neither the raw name, the qualified name nor the code gives a name that
\* is not synthetic.
C16_DisplayNameNeverSynthetic ==
    dn_pc = "done" =>
        /\ dn_result # <<>>
        /\ ~is_synthetic(dn_result)
        /\ dn_result = make_display_name(dn_raw, dn_full, dn_code, dn_id)
        /\ NoNameSource =>
              dn_result = <<"m", "e", "t", "h", "o", "d", "_">> \o IntToStr(dn_id)

\* C16 witness: a call with a synthetic raw name, a qualified name of
\* synthetic tokens only and a code without a name returned method_12.
C16_Witness ==
    /\ dn_pc = "done"
    /\ dn_raw # <<>> /\ dn_full # <<>> /\ dn_code # <<>>
    /\ NoNameSource
    /\ dn_id = 12
    /\ dn_result = <<"m", "e", "t", "h", "o", "d", "_", "1", "2">>


\* the resolved source text is empty or ast.parse raises on it
Unparsed(code) == code = <<>> \/ ~ast_parse(code).ok

\* C17: for a resolved source text that is empty or does not parse, the
\* features of ast_features_from_code have every count at 0 and every
\* boolean at false.
C17_Counterexample ==
    \A i \in 1..Len(su_out) :
        Unparsed(su_out[i].full_code) =>
            /\ su_out[i].ast_features.num_calls = 0
            /\ su_out[i].ast_features.num_branches = 0
            /\ su_out[i].ast_features.num_loops = 0
            /\ su_out[i].ast_features.num_returns = 0
            /\ su_out[i].ast_features.num_args = 0
            /\ su_out[i].ast_features.num_awaits = 0
            /\ su_out[i].ast_features.uses_recursion = FALSE
            /\ su_out[i].ast_features.uses_io = FALSE


\* the method of the input list has an unparseable text, a call edge to an
\* id that is no node, or a name that display needs a fallback for
HardMethod(m) ==
    \/ ~ast_parse(extract_full_code(su_sources, m)).ok
    \/ \E i \in 1..Len(su_edges) :
           /\ su_edges[i].src = m.id /\ su_edges[i].dst # NoneValue
           /\ su_edges[i].dst \notin DOMAIN id_to_node
    \/ is_synthetic(m.name) \/ m.name = <<>>

\* C18: enrich_methods gives one entry per method of the input list, in the
\* order of the list: after i iterations out holds the entries of the first
\* i methods, and enriched_methods is as long as the list of methods.
C18_OneEntryPerMethod ==
    /\ GraphIndexBuilt =>
        /\ Len(su_out) = su_i
        /\ su_i <= Len(su_methods)
        /\ \A i \in 1..Len(su_out) : su_out[i].id = su_methods[i].id
    /\ Enriched =>
        /\ Len(su_enriched) = Len(su_methods)
        /\ \A i \in 1..Len(su_enriched) : su_enriched[i].id = su_methods[i].id

C18_Witness ==
    /\ Enriched
    /\ Len(su_methods) = 3
    /\ \E i \in 1..3 : ~ast_parse(su_enriched[i].full_code).ok
    /\ \E i \in 1..3 : \E k \in 1..Len(su_edges) :
           /\ su_edges[k].src = su_methods[i].id /\ su_edges[k].dst # NoneValue
           /\ su_edges[k].dst \notin DOMAIN id_to_node
    /\ \E i \in 1..3 : is_synthetic(su_methods[i].name)
    /\ \E i \in 1..3 : su_methods[i].name = <<>>
    /\ HardMethod(su_methods[1])


(***************************************************************************)
(* run_pipeline.py: main() runs the selected steps as subprocesses.        *)
(***************************************************************************)

\* str.split(sep): the pieces of text between the occurrences of ch
RECURSIVE SplitOn(_, _)
SplitOn(text, ch) ==
    IF \A i \in 1..Len(text) : text[i] # ch THEN <<text>>
    ELSE LET i == CHOOSE k \in 1..Len(text) :
                      text[k] = ch /\ \A j \in 1..(k - 1) : text[j] # ch
         IN <<SubSeq(text, 1, i - 1)>> \o SplitOn(SubSeq(text, i + 1, Len(text)), ch)

DigitValue(c) ==
    CASE c = "0" -> 0 [] c = "1" -> 1 [] c = "2" -> 2 [] c = "3" -> 3 [] c = "4" -> 4
      [] c = "5" -> 5 [] c = "6" -> 6 [] c = "7" -> 7 [] c = "8" -> 8 [] c = "9" -> 9

RECURSIVE DigitsValue(_)
DigitsValue(text) ==
    IF text = <<>> THEN 0
    ELSE 10 * DigitsValue(SubSeq(text, 1, Len(text) - 1)) + DigitValue(text[Len(text)])

\* int(text): ok is false where int() raises ValueError
IntOf(text) ==
    LET neg  == text # <<>> /\ text[1] = "-"
        body == IF neg THEN Tail(text) ELSE text
    IN IF body = <<>> \/ \E i \in 1..Len(body) : body[i] \notin DigitChars
       THEN [ok |-> FALSE, value |-> 0]
       ELSE [ok |-> TRUE, value |-> IF neg THEN 0 - DigitsValue(body) ELSE DigitsValue(body)]

\* list(range(a, b + 1))
RangeList(a, b) == [i \in 1..(IF b >= a THEN b - a + 1 ELSE 0) |-> a + i - 1]

\* steps_to_run before --skip-cpg is applied; ok is false where the
\* conversion raises ValueError
StepsOfArg(steps) ==
    IF ~steps.given \/ steps.text = <<>> THEN [ok |-> TRUE, steps |-> <<1, 2, 3, 4>>]
    ELSE IF "," \in Range(steps.text)
    THEN LET parts == SplitOn(steps.text, ",")
         IN IF \E i \in 1..Len(parts) : ~IntOf(parts[i]).ok
            THEN [ok |-> FALSE, steps |-> <<>>]
            ELSE [ok |-> TRUE, steps |-> [i \in 1..Len(parts) |-> IntOf(parts[i]).value]]
    ELSE IF "-" \in Range(steps.text)
    THEN LET parts == SplitOn(steps.text, "-")
         IN IF Len(parts) # 2 \/ ~IntOf(parts[1]).ok \/ ~IntOf(parts[2]).ok
            THEN [ok |-> FALSE, steps |-> <<>>]
            ELSE [ok |-> TRUE,
                  steps |-> RangeList(IntOf(parts[1]).value, IntOf(parts[2]).value)]
    ELSE IF ~IntOf(steps.text).ok THEN [ok |-> FALSE, steps |-> <<>>]
    ELSE [ok |-> TRUE, steps |-> <<IntOf(steps.text).value>>]

\* steps_to_run of main()
steps_to_run(args) ==
    LET parsed == StepsOfArg(args.steps)
        NotOne(s) == s # 1
    IN [ok |-> parsed.ok,
        steps |-> IF args.skip_cpg THEN SelectSeq(parsed.steps, NotOne) ELSE parsed.steps]

\* how subprocess.run can end: the child returns a code, the timeout
\* expires, or the call raises (the interpreter or the script is missing)
ReturnCodes == {0, 1, 2}
StepOutcomes ==
    {[kind |-> "returned", returncode |-> c] : c \in ReturnCodes}
        \cup {[kind |-> "timeout", returncode |-> NoneValue],
              [kind |-> "error", returncode |-> NoneValue]}

run_step_AnyReturn(outcome) == outcome.kind = "returned"

\* run_step: True only when the child returned code 0
run_step(outcome) == outcome.kind = "returned" /\ outcome.returncode = 0

StepNumbers == 1..4

\* check_requirements() and the --check exits
RP_CheckRequirements ==
    /\ rp_pc = "check_requirements"
    /\ IF ~rp_req /\ rp_args.check THEN rp_pc' = "exited" /\ rp_exit' = 1
       ELSE IF rp_args.check THEN rp_pc' = "exited" /\ rp_exit' = 0
       ELSE rp_pc' = "determine_steps" /\ rp_exit' = rp_exit
    /\ UNCHANGED <<rp_args, rp_req, rp_steps, rp_at, rp_running, rp_started, rp_codes,
                   rp_complete>>
    /\ UNCHANGED notRp

\* steps_to_run is computed and the source directory is asked for; an
\* uncaught ValueError of int() ends the process with code 1
RP_DetermineSteps ==
    /\ rp_pc = "determine_steps"
    /\ LET r == steps_to_run(rp_args)
       IN IF ~r.ok
          THEN rp_pc' = "exited" /\ rp_exit' = 1 /\ UNCHANGED <<rp_steps, rp_at>>
          ELSE /\ rp_steps' = r.steps
               /\ IF 1 \in Range(r.steps) /\ ~rp_args.source_dir
                  THEN rp_pc' = "exited" /\ rp_exit' = 1 /\ rp_at' = rp_at
                  ELSE rp_pc' = "steps" /\ rp_exit' = rp_exit /\ rp_at' = 1
    /\ UNCHANGED <<rp_args, rp_req, rp_running, rp_started, rp_codes, rp_complete>>
    /\ UNCHANGED notRp

\* "if k in steps_to_run" is false
RP_SkipStep ==
    /\ rp_pc = "steps" /\ ~rp_running
    /\ rp_at \in StepNumbers
    /\ rp_at \notin Range(rp_steps)
    /\ rp_at' = rp_at + 1
    /\ UNCHANGED <<rp_args, rp_req, rp_steps, rp_running, rp_started, rp_codes, rp_complete,
                   rp_exit, rp_pc>>
    /\ UNCHANGED notRp

\* "if k in steps_to_run" is true: run_step starts the subprocess
RP_StartStep ==
    /\ rp_pc = "steps" /\ ~rp_running
    /\ rp_at \in StepNumbers
    /\ rp_at \in Range(rp_steps)
    /\ rp_running' = TRUE
    /\ rp_started' = Append(rp_started, rp_at)
    /\ UNCHANGED <<rp_args, rp_req, rp_steps, rp_at, rp_codes, rp_complete, rp_exit, rp_pc>>
    /\ UNCHANGED notRp

\* subprocess.run ends, run_step returns, main() goes on or calls sys.exit(1)
RP_StepEnds ==
    /\ rp_pc = "steps" /\ rp_running
    /\ \E outcome \in StepOutcomes :
        /\ rp_codes' = Append(rp_codes, outcome)
        /\ rp_running' = FALSE
        /\ IF run_step(outcome)
           THEN rp_at' = rp_at + 1 /\ UNCHANGED <<rp_exit, rp_pc>>
           ELSE rp_pc' = "exited" /\ rp_exit' = 1 /\ rp_at' = rp_at
    /\ UNCHANGED <<rp_args, rp_req, rp_steps, rp_started, rp_complete>>
    /\ UNCHANGED notRp

\* after step 4: "Pipeline Complete!" is printed and main() returns
RP_Complete ==
    /\ rp_pc = "steps" /\ ~rp_running
    /\ rp_at = 5
    /\ rp_complete' = TRUE
    /\ rp_pc' = "exited" /\ rp_exit' = 0
    /\ UNCHANGED <<rp_args, rp_req, rp_steps, rp_at, rp_running, rp_started, rp_codes>>
    /\ UNCHANGED notRp

\* the values of --steps
StepsTexts ==
    {<<"1", ",", "2", ",", "3">>, <<"3", ",", "1">>, <<"2", "-", "4">>, <<"4", "-", "2">>, <<"3">>, <<"5">>, <<"2", ",", "2">>, <<"1", "2">>, <<"a">>, <<"1", "-">>, <<"2", ",">>, <<"1", "-", "2", "-", "3">>, <<"4", ",", "-", "1">>}

InitPipeline ==
    /\ IdleBut("pipeline")
    /\ rp_args \in [steps : {[given |-> FALSE, text |-> <<>>]}
                              \cup {[given |-> TRUE, text |-> t] : t \in StepsTexts},
                    skip_cpg : BOOLEAN, check : BOOLEAN, source_dir : BOOLEAN]
    /\ rp_req \in BOOLEAN
    /\ rp_steps = <<>> /\ rp_at = 0 /\ rp_running = FALSE
    /\ rp_started = <<>> /\ rp_codes = <<>> /\ rp_complete = FALSE
    /\ rp_exit = 0 /\ rp_pc = "check_requirements"

NextPipeline ==
    \/ RP_CheckRequirements
    \/ RP_DetermineSteps
    \/ RP_SkipStep
    \/ RP_StartStep
    \/ RP_StepEnds
    \/ RP_Complete

SpecPipeline == InitPipeline /\ [][NextPipeline]_vars

\* the steps of 1..4 that steps_to_run selects
SelectedSteps == Range(rp_steps) \cap StepNumbers

\* the subprocess of the i-th started step ended with return code 0
EndedOk(i) ==
    i <= Len(rp_codes) /\ rp_codes[i].kind = "returned" /\ rp_codes[i].returncode = 0

\* C19: the steps started are selected steps in increasing order; a step is
\* started only after every earlier selected step was run and returned 0;
\* after a step that failed, timed out or could not be run the process has
\* exited non-zero and that step is the last one started; "Pipeline
\* Complete" goes with exit code 0 and every selected step returned 0.
C19_StepsInOrderStopOnFailure ==
    /\ \A i \in 1..Len(rp_started) :
        /\ rp_started[i] \in SelectedSteps
        /\ \A j \in 1..(i - 1) : rp_started[j] < rp_started[i] /\ EndedOk(j)
        /\ \A s \in SelectedSteps :
               s < rp_started[i] => \E j \in 1..(i - 1) : rp_started[j] = s
    /\ \A i \in 1..Len(rp_codes) :
        ~EndedOk(i) =>
            /\ i = Len(rp_started)
            /\ ~rp_running
            /\ rp_pc = "exited" /\ rp_exit # 0 /\ ~rp_complete
    /\ rp_complete =>
        /\ rp_pc = "exited" /\ rp_exit = 0
        /\ \A s \in SelectedSteps : \E i \in 1..Len(rp_started) : rp_started[i] = s /\ EndedOk(i)

C19_Witness ==
    /\ rp_pc = "exited" /\ rp_exit = 1
    /\ rp_steps = <<2, 3, 4>>
    /\ rp_started = <<2, 3>>
    /\ EndedOk(1)
    /\ rp_codes[2].kind = "timeout"


\* C20: within one pass of _graph_expand no method id is added twice, and
\* no added document is one of the seeds.
C20_Counterexample ==
    /\ \A i, j \in 1..Len(added) : added[i].mid = added[j].mid => i = j
    /\ \A i \in 1..Len(added) :
           \A k \in 1..Len(scored_docs) : scored_docs[k].mid # added[i].mid


-----------------------------------------------------------------------------
(* _graph_expand as a function of its arguments: the ids of the documents   *)
(* it adds, in the order it adds them                                       *)

\* the for loop over the neighbors list of one popped entry
RECURSIVE ExpandFor(_, _, _, _, _, _, _)
ExpandFor(index, nbrs, lv, q, seen, acc, cap) ==
    IF nbrs = <<>> THEN [q |-> q, seen |-> seen, acc |-> acc]
    ELSE LET nid == Head(nbrs)
         IN IF nid \notin DOMAIN index
            THEN ExpandFor(index, Tail(nbrs), lv, q, seen \cup {nid}, acc, cap)
            ELSE IF Len(acc) + 1 >= cap
                 THEN [q |-> Append(q, <<nid, lv + 1>>), seen |-> seen \cup {nid},
                       acc |-> Append(acc, nid)]
                 ELSE ExpandFor(index, Tail(nbrs), lv, Append(q, <<nid, lv + 1>>),
                                seen \cup {nid}, Append(acc, nid), cap)

\* the while loop over the queue of (id, depth) entries
RECURSIVE ExpandWhile(_, _, _, _, _, _)
ExpandWhile(index, q, seen, acc, h, cap) ==
    IF q = <<>> \/ Len(acc) >= cap THEN acc
    ELSE LET mid == Head(q)[1]
             lv  == Head(q)[2]
         IN IF lv >= h \/ mid \notin DOMAIN index
            THEN ExpandWhile(index, Tail(q), seen, acc, h, cap)
            ELSE LET r == ExpandFor(index, NeighborsOf(index[mid], seen), lv, Tail(q),
                                    seen, acc, cap)
                 IN ExpandWhile(index, r.q, r.seen, r.acc, h, cap)

\* the method ids of the documents _graph_expand(docs, hops=h, max_add=cap) adds
AddedIdsOf(index, docs, h, cap) ==
    LET seeds == SeedQueue(docs)
    IN ExpandWhile(index, [i \in 1..Len(seeds) |-> <<seeds[i][1], seeds[i][3]>>],
                   {seeds[i][1] : i \in 1..Len(seeds)}, <<>>, h, cap)

\* the method ids of added, in order
AddedIds == [i \in 1..Len(added) |-> added[i].mid]

\* the pass under way has added what the function gives
ExpandAgrees ==
    ge_pc = "done" => AddedIds = AddedIdsOf(enriched, scored_docs, hops, max_add)

\* a max_add that cannot bind on the project of DecayNodes: an id is added
\* at most twice
UnboundAdd == 2 * Cardinality(DecayNodes)

\* the indexes of the project, with the depth each was enriched at
DecayIndexes ==
    {[depth |-> d,
      index |-> EnrichIndex(SelectSeq(DecayEdges, LAMBDA e : \E i \in keep : DecayEdges[i] = e),
                            DecayNodes, DecayNodes, d)] :
        keep \in SUBSET (1..Len(DecayEdges)), d \in 1..GraphDepth}

\* C21: on an index enriched at depth graphDepth, a pass with hops greater
\* than graphDepth, whose max_add did not bind, adds only ids that the pass
\* with hops = graphDepth on the same documents and index adds.
C21_Counterexample ==
    (ge_pc = "done" /\ Len(added) < max_add) =>
        \A x \in DecayIndexes :
            (x.index = enriched /\ hops > x.depth) =>
                Range(AddedIds) \subseteq
                    Range(AddedIdsOf(enriched, scored_docs, x.depth, UnboundAdd))


-----------------------------------------------------------------------------
(* RAGSetup.graph_context called with any id and depth on the index that   *)
(* build_graph_index made of a graph                                        *)

MaxContextDepth == 3
MaxFanOut == 51

\* the edges of a small graph: a call cycle 1 -> 2 -> 3 -> 1, a second edge
\* of the call 1 -> 2, a syntax edge, calls through the id 9 that is no node,
\* a self call, and a call of the CALL node 4
ContextEdgePool ==
    << [src |-> 1, dst |-> 2, label |-> "CALL"], [src |-> 2, dst |-> 3, label |-> "CALL"],
       [src |-> 3, dst |-> 1, label |-> "CALL"], [src |-> 1, dst |-> 2, label |-> "CALL"],
       [src |-> 1, dst |-> 3, label |-> "AST"],  [src |-> 2, dst |-> 9, label |-> "CALL"],
       [src |-> 9, dst |-> 3, label |-> "call"], [src |-> 1, dst |-> 1, label |-> "CALL"],
       [src |-> 2, dst |-> 4, label |-> "CALL"] >>

ContextEdgeLists ==
    {[k \in 1..Cardinality(keep) |-> ContextEdgePool[SetToSeq(keep)[k]]] :
        keep \in SUBSET (1..Len(ContextEdgePool))}

ContextNodeLists ==
    {<<NodeRun, NodeBad, NodeExternal>>, <<NodeRun, NodeBad>>, <<NodeBad, NodeCall, NodeRun>>}

\* a hub, method 1, that calls n other methods and is called by each of them
StarNodes(n) ==
    [i \in 1..(n + 1) |->
        [id |-> (IF i = 1 THEN 1 ELSE 8 + i), label |-> "METHOD", isExternal |-> FALSE,
         name |-> <<"m">> \o IntToStr(i), fullName |-> <<"m">> \o IntToStr(i),
         filename |-> <<"a", ".", "p", "y">>, lineNumber |-> i, code |-> <<>>]]

StarEdges(n) ==
    [i \in 1..(2 * n) |->
        IF i <= n THEN [src |-> 1, dst |-> 9 + i, label |-> "CALL"]
        ELSE [src |-> 9 + i - n, dst |-> 1, label |-> "CALL"]]

\* the graphs: the small ones, and hubs of 1, 2 and MaxFanOut callees
ContextGraphs ==
    {[nodes |-> ns, edges |-> es] : ns \in ContextNodeLists, es \in ContextEdgeLists}
        \cup {[nodes |-> StarNodes(n), edges |-> StarEdges(n)] : n \in {1, 2, MaxFanOut}}

\* the ids graph_context is called with
ContextIds == {1, 2, 3, 4, 9}

\* graph_context(method_id, depth) on the built index
GC_Call ==
    /\ su_pc = "enrich"
    /\ ~gc_call.done
    /\ \E m \in ContextIds, d \in 0..MaxContextDepth :
          LET c == graph_context(IndexedEdges(su_edges), DOMAIN id_to_node, m, d)
          IN gc_call' = [done |-> TRUE, id |-> m, depth |-> d,
                         calls |-> c.calls, called_by |-> c.called_by]
    /\ UNCHANGED notGc

InitContext ==
    /\ \E g \in ContextGraphs :
          /\ nodes_json = [exists |-> TRUE, valid |-> TRUE, nodes |-> g.nodes]
          /\ edges_json = [exists |-> TRUE, valid |-> TRUE, edges |-> g.edges]
    /\ methods_json = [exists |-> FALSE, valid |-> FALSE, methods |-> <<>>]
    /\ su_dir = <<>>
    /\ su_nodes = <<>> /\ su_edges = <<>> /\ su_methods = <<>> /\ su_sources = <<>>
    /\ id_to_node = <<>> /\ outgoing = <<>> /\ incoming = <<>>
    /\ su_out = <<>> /\ su_i = 0 /\ su_enriched = <<>>
    /\ su_pc = "load_cpg"
    /\ IdleContext
    /\ IdleBut("context")

NextContext == SU_LoadCpg \/ SU_LoadSources \/ SU_BuildGraphIndex \/ GC_Call

SpecContext == InitContext /\ [][NextContext]_vars

\* the edges of the loaded graph that count as CALL edges: both ends given,
\* the label CALL in any case of letters
CallPairs ==
    {<<su_edges[i].src, su_edges[i].dst>> :
        i \in {j \in 1..Len(su_edges) :
                  /\ su_edges[j].src # NoneValue /\ su_edges[j].dst # NoneValue
                  /\ UpperLabel(su_edges[j].label) = "CALL"}}

\* the ids a path of 1 to d pairs leads to from m; forward follows the
\* pairs from source to destination
RECURSIVE ReachWithin(_, _, _)
ReachWithin(m, d, forward) ==
    IF d <= 0 THEN {}
    ELSE LET from == {m} \cup ReachWithin(m, d - 1, forward)
         IN {IF forward THEN p[2] ELSE p[1] :
                p \in {x \in CallPairs : (IF forward THEN x[1] ELSE x[2]) \in from}}

NoRepeat(s) == \A i, j \in 1..Len(s) : s[i] = s[j] => i = j

\* C22: graph_context(m, d) lists in calls, each once, exactly the ids of
\* id_to_node that a path of 1 to d CALL edges leads to from m, and in
\* called_by the same over the edges taken backwards.
C22_ContextIsBoundedReach ==
    gc_call.done =>
        /\ NoRepeat(gc_call.calls) /\ NoRepeat(gc_call.called_by)
        /\ Range(gc_call.calls) =
               ReachWithin(gc_call.id, gc_call.depth, TRUE) \cap DOMAIN id_to_node
        /\ Range(gc_call.called_by) =
               ReachWithin(gc_call.id, gc_call.depth, FALSE) \cap DOMAIN id_to_node

\* a call at depth 2 on a graph where method 3 is a caller of method 1, is
\* joined to it by a syntax edge, and is three calls away through an id
\* that is no node
C22_Witness ==
    /\ gc_call.done /\ gc_call.id = 1 /\ gc_call.depth = 2
    /\ \E i \in 1..Len(su_edges) : su_edges[i].label = "AST" /\ su_edges[i].src = 1
    /\ \E i \in 1..Len(su_edges) : su_edges[i].dst = 9
    /\ 3 \in DOMAIN id_to_node
    /\ 3 \notin Range(gc_call.calls)
    /\ 3 \in Range(gc_call.called_by)
    /\ 2 \in Range(gc_call.calls)


\* C23: one level of a walk of graph_context puts at most a fixed number of
\* neighbors in the stored list; the number the repository has for these
\* lists is NeighborCap, so a walk of one level lists at most NeighborCap ids.
C23_Counterexample ==
    (gc_call.done /\ gc_call.depth = 1) =>
        /\ Len(gc_call.calls) <= NeighborCap
        /\ Len(gc_call.called_by) <= NeighborCap


-----------------------------------------------------------------------------
(* _graph_expand on an index that holds one function under two ids: the     *)
(* graph has two METHOD nodes for it and the methods were not deduplicated  *)

MaxDupHops == 2
MaxDupAdd == 3

DupNodes == 1..4

\* the CALL edges the project can have
DupEdges ==
    << [src |-> 1, dst |-> 4, label |-> "CALL"], [src |-> 1, dst |-> 3, label |-> "CALL"],
       [src |-> 2, dst |-> 3, label |-> "CALL"], [src |-> 3, dst |-> 4, label |-> "CALL"],
       [src |-> 4, dst |-> 1, label |-> "CALL"], [src |-> 2, dst |-> 1, label |-> "CALL"] >>

\* the index: method 4 has the name, file and line of method 3
DupIndex(edges) ==
    LET ix == EnrichIndex(edges, DupNodes, DupNodes, 1)
    IN [ix EXCEPT ![4].display_name = ix[3].display_name,
                  ![4].lineNumber = ix[3].lineNumber]

\* the document of a method of the index at a score of units
DupDoc(ix, m, units) ==
    ScoredDoc(units * ScoreUnit, m, ix[m].display_name, ix[m].filename,
              ix[m].lineNumber, ix[m].full_code)

\* the fused lists: one or two methods of different keys, by descending score
DupSeeds ==
    {<< <<m, u>> >> : m \in DupNodes, u \in {3, 5}}
        \cup {<< <<m, u>>, <<n, v>> >> : m \in DupNodes, n \in DupNodes, u \in {3, 5}, v \in {1, 3}}

InitDuplicate ==
    /\ \E keep \in SUBSET (1..Len(DupEdges)), s \in DupSeeds :
          LET ix == DupIndex(SelectSeq(DupEdges, LAMBDA e : \E i \in keep : DupEdges[i] = e))
          IN /\ enriched = ix
             /\ scored_docs = [i \in 1..Len(s) |-> DupDoc(ix, s[i][1], s[i][2])]
             /\ \A i, j \in 1..Len(s) :
                    i # j => ix[s[i][1]].lineNumber # ix[s[j][1]].lineNumber
    /\ hops \in 1..MaxDupHops
    /\ max_add \in {1, MaxDupAdd}
    /\ queue = <<>>
    /\ seen_ids = {}
    /\ added = <<>>
    /\ neighbors = <<>>
    /\ cur = <<0, 0, 0>>
    /\ ge_out = <<>>
    /\ ge_pc = "start"
    /\ ge_steps = 0
    /\ added_from = <<>>
    /\ IdleBut("expand")

SpecDuplicate == InitDuplicate /\ [][NextExpand]_vars

\* the documents the merge starts from
Combined == scored_docs \o added

\* C24: the list _graph_expand returns has one document per key, the
\* document of a key is one of the original and added documents and no
\* document of that key scores higher, and the scores never increase along
\* the list.
C24_OnePerKeyMaxScoreSorted ==
    ge_pc = "done" =>
        /\ \A i, j \in 1..Len(ge_out) : ge_out[i].key = ge_out[j].key => i = j
        /\ \A i \in 1..Len(ge_out) : \E k \in 1..Len(Combined) : Combined[k] = ge_out[i]
        /\ \A k \in 1..Len(Combined) :
               \E i \in 1..Len(ge_out) :
                   ge_out[i].key = Combined[k].key /\ ge_out[i].score >= Combined[k].score
        /\ \A i \in 1..(Len(ge_out) - 1) : ge_out[i].score >= ge_out[i + 1].score

\* an added document has the key of an original one and a higher score: the
\* added one is returned for the key
C24_Witness ==
    /\ ge_pc = "done"
    /\ \E k \in 1..Len(scored_docs), a \in 1..Len(added) :
          /\ added[a].key = scored_docs[k].key
          /\ added[a].score > scored_docs[k].score
          /\ \E i \in 1..Len(ge_out) : ge_out[i] = added[a]
          /\ \A i \in 1..Len(ge_out) : ge_out[i] # scored_docs[k]


-----------------------------------------------------------------------------
(* Properties of the fused score *)

\* _merge_and_score has just returned its list to query()
Fused == q_pc = "expand" /\ ge_pc = "start"

\* weight(view) x max(0, 1 - r/n), in units of 1/FusedUnit, summed over the
\* ranks r (counted from 0) at which the view's list of length n has the key
RECURSIVE ViewShareFrom(_, _, _)
ViewShareFrom(view, key, r) ==
    LET docs == q_retrieved[view]
        n    == Len(docs)
    IN IF r >= n THEN 0
       ELSE (IF DocKey(docs[r + 1].filename, docs[r + 1].line_number,
                       docs[r + 1].display_name) = key
             THEN (StoreWeights(q_type)[view] * Max(0, n - r) * FusedUnit) \div (20 * n)
             ELSE 0)
            + ViewShareFrom(view, key, r + 1)

ViewShare(view, key) == ViewShareFrom(view, key, 0)

\* 0.02 x simple_keyword_score of the content of the fused document
LexicalBoost(d) ==
    (2 * simple_keyword_score(d.content,
                              IF q_type = "fault" THEN fault_rerank_keywords
                              ELSE LastN(IdentTokens(Lower(q_question), 1), 10))
       * FusedUnit) \div 100

\* the views that returned the key
ViewsOf(key) == {v \in StoreSet : ViewShare(v, key) > 0}

\* C25: the score of a fused document less its lexical boost is the sum
\* over the four views of the view's weighted rank scores of the key, and is
\* at least the share of every single view.
C25_FusedScoreIsWeightedSum ==
    Fused =>
        \A i \in 1..Len(scored_docs) :
            LET fused == scored_docs[i].score - LexicalBoost(scored_docs[i])
                share == [v \in StoreSet |-> ViewShare(v, scored_docs[i].key)]
            IN /\ fused = share["semantic"] + share["structural"]
                              + share["fault"] + share["hybrid"]
               /\ \A v \in StoreSet : fused >= share[v]

\* a fused document that two views or more returned, at a rank other than
\* the first in one of them, scores more than any one view gives it
C25_Witness ==
    /\ Fused
    /\ \E i \in 1..Len(scored_docs) :
          /\ Cardinality(ViewsOf(scored_docs[i].key)) >= 2
          /\ \E v \in StoreSet :
                \E r \in 2..Len(q_retrieved[v]) :
                    DocKey(q_retrieved[v][r].filename, q_retrieved[v][r].line_number,
                           q_retrieved[v][r].display_name) = scored_docs[i].key
          /\ \A v \in StoreSet :
                scored_docs[i].score - LexicalBoost(scored_docs[i])
                    > ViewShare(v, scored_docs[i].key)


-----------------------------------------------------------------------------
(* Properties of the context blocks *)

\* the marker put after a code that was cut
TruncationMarker ==
    <<"\n", "\n", ".", ".", ".", " ", "(", "t", "r", "u", "n", "c", "a", "t", "e", "d", ")">>

\* _prepare_context_blocks has returned the blocks of the expanded list
BlocksPrepared == q_pc \in {"llm", "returned"} /\ RetrievalDone /\ ge_pc = "done"

\* C26: the blocks are the first min(number of ranked documents, max_blocks)
\* documents of the ranked list, in order, numbered 1, 2, ...; the code of a
\* block is the content of its document when that has at most
\* MAX_CODE_LENGTH characters, and otherwise its first MAX_CODE_LENGTH
\* characters followed by the truncation marker.
C26_BlocksAreTheFrontOfTheRanking ==
    BlocksPrepared =>
        /\ Len(q_blocks) = Min(Len(ge_out), QueryMaxBlocks)
        /\ \A i \in 1..Len(q_blocks) :
              /\ q_blocks[i].n = i
              /\ q_blocks[i].name = OrUnknown(ge_out[i].name)
              /\ q_blocks[i].file = OrUnknown(ge_out[i].file)
              /\ IF Len(ge_out[i].content) <= MaxCodeLength
                 THEN q_blocks[i].content = ge_out[i].content
                 ELSE /\ Len(q_blocks[i].content) = MaxCodeLength + Len(TruncationMarker)
                      /\ SubSeq(q_blocks[i].content, 1, MaxCodeLength)
                             = SubSeq(ge_out[i].content, 1, MaxCodeLength)
                      /\ SubSeq(q_blocks[i].content, MaxCodeLength + 1,
                                Len(q_blocks[i].content)) = TruncationMarker

\* more documents than max_blocks were ranked, one with a code that was cut
\* and one with a code that was not
C26_Witness ==
    /\ BlocksPrepared
    /\ Len(ge_out) > QueryMaxBlocks
    /\ Len(q_blocks) = QueryMaxBlocks
    /\ \E i \in 1..Len(q_blocks) : Len(ge_out[i].content) > MaxCodeLength
    /\ \E i \in 1..Len(q_blocks) :
          ge_out[i].content # <<>> /\ Len(ge_out[i].content) <= MaxCodeLength

-----------------------------------------------------------------------------
(* A session on one engine: interactive_mode calls query() again after a    *)
(* call has returned or raised                                              *)

\* initialize() runs of one session that load the enriched methods
MaxInitRuns == 2

\* the questions of a session
SessionQuestions ==
    {<<" ", "h", "i", " ">>,
     <<"f", "i", "n", "d", " ", "<", "r", "u", "n", ">">>,
     <<"o", "v", "e", "r", "v", "i", "e", "w", " ", "o", "f", " ", "t", "h", "i", "s", " ", "p", "r", "o", "j", "e", "c", "t">>,
     <<"w", "h", "o", " ", "c", "a", "l", "l", "s", " ", "r", "u", "n">>}

\* the query types of --type and of the /type command
QueryTypeArgs == {"auto", "semantic", "structural", "fault", "overview"}

\* the states of the vector store provider of a session
SessionHealths ==
    {AllStores("ok"),
     [AllStores("ok") EXCEPT !["fault"] = "unloadable", !["hybrid"] = "search_fails"]}

\* one turn of the loop of interactive_mode: the call before has returned,
\* or has raised and the exception was printed; engine.query(q, query_type)
\* is called with the next line and the type the /type command has set
IM_NextQuery ==
    /\ q_pc \in {"returned", "raised"}
    /\ initialized \/ Len(all_method_names) < MaxInitRuns * Len(enriched_json.methods)
    /\ q_question' \in SessionQuestions
    /\ q_type' \in QueryTypeArgs
    /\ q_meta' = <<>> /\ q_idx' = 0 /\ q_retrieved' = <<>> /\ q_blocks' = <<>>
    /\ q_sources' = <<>> /\ q_result' = NoResult /\ q_log' = <<>> /\ q_failed' = {}
    /\ q_observed' = <<>> /\ q_pc' = "call"
    /\ scored_docs' = <<>> /\ hops' = 0 /\ max_add' = 0
    /\ queue' = <<>> /\ seen_ids' = {} /\ added' = <<>> /\ neighbors' = <<>>
    /\ cur' = <<0, 0, 0>> /\ ge_out' = <<>> /\ ge_pc' = "idle" /\ ge_steps' = 0
    /\ added_from' = <<>>
    /\ UNCHANGED <<engineVars, diskVars, q_top_k>>
    /\ UNCHANGED notQ

InitSession ==
    /\ enriched_json = IndexOfProject.enriched_json
    /\ chroma = IndexOfProject.chroma
    /\ store_health \in SessionHealths
    /\ initialized = FALSE
    /\ vector_stores = AllStores("None")
    /\ enriched_methods = <<>>
    /\ enriched = <<>>
    /\ methods_by_file = <<>> /\ all_method_names = <<>>
    /\ q_top_k = 1 /\ config_top_k = 1
    /\ q_question \in SessionQuestions
    /\ q_type \in QueryTypeArgs
    /\ q_meta = <<>> /\ q_idx = 0 /\ q_retrieved = <<>> /\ q_blocks = <<>>
    /\ q_sources = <<>> /\ q_result = NoResult /\ q_log = <<>> /\ q_failed = {}
    /\ q_observed = <<>> /\ q_pc = "call"
    /\ scored_docs = <<>> /\ hops = 0 /\ max_add = 0
    /\ queue = <<>> /\ seen_ids = {} /\ added = <<>> /\ neighbors = <<>>
    /\ cur = <<0, 0, 0>> /\ ge_out = <<>> /\ ge_pc = "idle" /\ ge_steps = 0 /\ added_from = <<>>
    /\ IdleBut("query")

NextSession == NextQuery \/ IM_NextQuery

SpecSession == InitSession /\ [][NextSession]_vars

\* the engine state a query reads
IndexState == <<enriched_methods, enriched, methods_by_file, all_method_names, vector_stores>>

TimesIn(s, x) == Cardinality({i \in 1..Len(s) : s[i] = x})

\* C28: after every sequence of initialize() runs of a session, the runs the
\* LLM smoke test ended with an exception included, each enriched method is
\* once in the list methods_by_file has for its file and its name is once in
\* all_method_names
C28_Counterexample ==
    \A i \in 1..Len(enriched_methods) :
        LET m == enriched_methods[i]
        IN /\ DictHas(methods_by_file, m.filename)
           /\ TimesIn(DictGet(methods_by_file, m.filename), m) = 1
           /\ TimesIn(all_method_names, m.display_name) = 1


\* the call has passed initialize() and preprocessing
Decided == q_pc \notin {"call", "preprocess", "raised"}

\* the question has fewer than three characters once it is trimmed
TooShort == Len(Strip(q_question)) < 3

\* the steps of retrieval, fusion and expansion the call has made
RetrievalCalls == WorkCalls \ {"llm.invoke:overview", "llm.invoke:prompt"}

-----------------------------------------------------------------------------
(* What the expansion does to the fused candidates *)

\* C30: _graph_expand never drops or demotes a candidate it was given: every
\* key of the list passed in is a key of the list returned, at a score that
\* is at least the score of every input document of that key, and the list
\* returned has at most max_add documents more than the list passed in
C30_ExpansionKeepsCandidates ==
    ge_pc = "done" =>
        /\ \A k \in 1..Len(scored_docs) :
               \E i \in 1..Len(ge_out) :
                   /\ ge_out[i].key = scored_docs[k].key
                   /\ ge_out[i].score >= scored_docs[k].score
        /\ Len(ge_out) <= Len(scored_docs) + max_add

\* the expansion has added max_add documents, one of them under the key of a
\* candidate and at a lower score than the candidate
C30_Witness ==
    /\ ge_pc = "done"
    /\ Len(added) = max_add
    /\ \E k \in 1..Len(scored_docs), a \in 1..Len(added) :
          /\ added[a].key = scored_docs[k].key
          /\ added[a].score < scored_docs[k].score
          /\ \E i \in 1..Len(ge_out) : ge_out[i] = scored_docs[k]

=============================================================================
